---- MODULE Spec2Model ----
(***************************************************************************)
(* A model of git-theta: the clean / smudge filter driver, the update      *)
(* plug-ins, the LFS adapter, the commit ledger (.git/theta/commits) with  *)
(* its post-commit and pre-push hooks, and the async run_map driver.       *)
(*                                                                         *)
(* Parameter names are modelled by their rank in lexicographic order (the  *)
(* key 1 sorts before the key 2).  A tensor is a record of shape, dtype    *)
(* and one scaled integer element; tolerances are in the same unit.        *)
(* Commits are numbered in creation order; 0 stands for "no commit"        *)
(* (git_utils.get_head returning None, or the all-zero hash of pre-push).  *)
(***************************************************************************)
EXTENDS Integers, Sequences, FiniteSets, TLC

VARIABLES
    commits,      \* the commit graph: commit id -> [parent, tree, ...]
    head,         \* the commit HEAD names, 0 in a repository with no commit
    lfsObjects,   \* the LFS object store: oid -> blob
    ledger,       \* .git/theta/commits: commit id -> set of oids
    remoteRef,    \* the commit each remote's branch names, 0 when it has none
    lfsPushed,    \* per remote, the oids handed to "git lfs push --object-id"
    hookLog,      \* what the last hook run did
    mapState,     \* run_map: per key task state and the driver's state
    filterOut,    \* the filter process: what it wrote to stdout and its exit status
    loaded,       \* what the last api.load_from_git returned
    metaFile,     \* a Metadata document: in memory, written to a file, read back
    attrFile,     \* .gitattributes: the entries in file order
    updateRun,    \* an update plug-in at work on a parameter and its previous value
    storeRun      \* the last run of an object-store subprocess and what came of it

vars == <<commits, head, lfsObjects, ledger, remoteRef, lfsPushed,
          hookLog, mapState, filterOut, loaded, metaFile, attrFile, updateRun,
          storeRun>>

fileVars == <<metaFile, attrFile, updateRun, storeRun>>

\* No Metadata document at hand.
NoDocument == [phase |-> "none"]

\* No .gitattributes file read.
NoAttributes == << >>

\* No update plug-in at work.
NoUpdate == [phase |-> "none"]

\* No object-store subprocess has run.
NoStoreRun == [op |-> "none"]

repoVars == <<commits, head, lfsObjects, loaded>>

ledgerVars == <<ledger, remoteRef, lfsPushed, hookLog>>

mapVars == <<mapState, filterOut>>

----------------------------------------------------------------------------
(* Bounds of the model *)

MaxCommits == 3

\* The most objects left in the store by cleans that raised.
MaxOrphans == 1

ParamKeys == {1, 2}

\* The element values of the first parameter's tensors.
Vals == {0, 1, 3}

\* The element values of the second parameter's tensors.
Vals2 == {0, 4}

Abs(x) == IF x < 0 THEN -x ELSE x

Max(a, b) == IF a < b THEN b ELSE a

----------------------------------------------------------------------------
(* utils.EnvVarConstants: tolerances, in the unit of the tensor elements *)

PARAMETER_ATOL == 2

LSH_THRESHOLD == 4

\* PARAMETER_RTOL = RTOL_NUM / RTOL_DEN = 1e-5
RTOL_NUM == 1

RTOL_DEN == 100000

LSH_SIGNATURE_SIZE == 1

----------------------------------------------------------------------------
(* Tensors and checkpoints *)

Tensor(s, d, v) == [shape |-> s, dtype |-> d, val |-> v]

\* The tensors a parameter may hold: the first parameter also comes in a
\* second shape.
KeyTensors(k) ==
    IF k = 1
    THEN {Tensor(1, "f32", v) : v \in Vals} \cup {Tensor(2, "f32", 0)}
    ELSE {Tensor(1, "f32", v) : v \in Vals2}

Tensors == UNION {KeyTensors(k) : k \in ParamKeys}

\* A flattened checkpoint: a map from some parameter keys to tensors.
Checkpoints ==
    UNION {{c \in [ks -> Tensors] : \A k \in ks : c[k] \in KeyTensors(k)} :
           ks \in SUBSET ParamKeys}

\* sorted(checkpoint.flatten().items()): the keys in lexicographic order.
RECURSIVE SortedKeys(_)
SortedKeys(ks) ==
    IF ks = {} THEN <<>>
    ELSE LET m == CHOOSE k \in ks : \A j \in ks : k <= j
         IN <<m>> \o SortedKeys(ks \ {m})

----------------------------------------------------------------------------
(* lsh: EuclideanLSH with bucket_width = PARAMETER_ATOL *)

\* np.floor((x @ hyperplanes) / bucket_width); x \div w is the floor for w > 0.
LshHash(t) == t.val \div PARAMETER_ATOL

\* (1 / sqrt(signature_size)) * norm(query - data) * bucket_width
LshDistance(query, data) ==
    (Abs(query - data) * PARAMETER_ATOL) \div LSH_SIGNATURE_SIZE

\* np.allclose(a, b, rtol, atol): |a - b| <= atol + rtol * |b|
AllClose(a, b) ==
    /\ a.shape = b.shape
    /\ Abs(a.val - b.val) * RTOL_DEN <= PARAMETER_ATOL * RTOL_DEN + RTOL_NUM * Abs(b.val)

\* metadata.TensorMetadata.from_tensor
FromTensor(t) == [shape |-> t.shape, dtype |-> t.dtype, hash |-> LshHash(t)]

----------------------------------------------------------------------------
(* Results of operations that may raise *)

Ok(v) == [ok |-> TRUE, value |-> v]

Raise(e) == [ok |-> FALSE, err |-> e]

----------------------------------------------------------------------------
(* LFS adapter: git_utils.git_lfs_clean / git_lfs_smudge, LfsMetadata *)

\* The bytes params.UpdateSerializer.serialize produces for a map of named
\* arrays: the array names (format), and the array itself.
Blob(format, t) == [format |-> format, shape |-> t.shape, dtype |-> t.dtype, val |-> t.val]

FormatIdx(f) == CASE f = "parameter" -> 0 [] f = "csr" -> 1 [] f = "low-rank" -> 2 [] OTHER -> 3

DtypeIdx(d) == IF d = "f32" THEN 0 ELSE 1

\* An object id that forgets the elements of the array.
Sha256OfHeader(blob) ==
    ((FormatIdx(blob.format) * 2 + DtypeIdx(blob.dtype)) * 4 + blob.shape) * 100

\* The object id git-lfs gives to a blob: the sha256 of its bytes, modelled
\* as an injective code of the content (collisions are not modelled).
Sha256(blob) ==
    ((FormatIdx(blob.format) * 2 + DtypeIdx(blob.dtype)) * 4 + blob.shape) * 100
        + (blob.val + 50)

\* The byte length of a blob: a header and one element per unit of shape.
ByteSize(blob) == 8 + 4 * blob.shape

\* LfsMetadata.from_pointer(git_lfs_clean(bytes)): the pointer of the blob.
LfsClean(blob) == [version |-> "v1", oid |-> Sha256(blob), size |-> ByteSize(blob)]

\* The object store after "git lfs clean" has stored the blob.
LfsStore(store, blob) ==
    [o \in DOMAIN store \cup {Sha256(blob)} |->
        IF o = Sha256(blob) THEN blob ELSE store[o]]

\* git_lfs_smudge(pointer): the bytes stored under the pointer's oid.
LfsSmudge(store, lfs_metadata) ==
    IF lfs_metadata.oid \in DOMAIN store
    THEN Ok(store[lfs_metadata.oid])
    ELSE Raise("ObjectNotFound")

----------------------------------------------------------------------------
(* Update plug-ins (updates.base: Update, IncrementalUpdate; dense, sparse, *)
(* low-rank)                                                                *)

UpdateTypes == {"dense", "sparse", "low-rank"}

IncrementalTypes == UpdateTypes \ {"dense"}

UpdateFormat(update_type) ==
    CASE update_type = "dense" -> "parameter"
      [] update_type = "sparse" -> "csr"
      [] OTHER -> "low-rank"

\* calculate_update(parameter, previous_parameter): parameter - previous,
\* which numpy refuses for shapes that do not broadcast.
CalculateUpdate(update_type, new, previous) ==
    IF new.shape # previous.shape THEN Raise("DimensionMismatch")
    ELSE Ok(Tensor(new.shape, new.dtype, new.val - previous.val))

\* apply_update(update, previous)
ApplyUpdate(update_type, update, previous) ==
    IF update.shape # previous.shape THEN Raise("DimensionMismatch")
    ELSE Ok(Tensor(previous.shape, previous.dtype, previous.val + update.val))

\* The flattened Metadata document of the model file at a commit:
\* Metadata.from_commit(repo, path, commit).flatten(); empty when the
\* commit or the file does not exist.
DocAt(cs, c) == IF c \in DOMAIN cs THEN cs[c].tree ELSE << >>

\* The array a blob holds.
Deserialize(blob) == Tensor(blob.shape, blob.dtype, blob.val)

\* DenseUpdate.apply: the stored bytes are the parameter.
DenseApply(store, rec) ==
    LET read == LfsSmudge(store, rec.lfs_metadata)
    IN IF read.ok THEN Ok(Deserialize(read.value)) ELSE read

\* DenseUpdate.write: the parameter is stored as it is.
DenseWrite(new) == Ok([blob |-> Blob("parameter", new), hash |-> [given |-> FALSE, h |-> 0]])

\* Update.apply(param_metadata, param_keys, repo, path): the full tensor a
\* record stands for.  Dense: the stored bytes.  Incremental: the stored
\* update applied to the previous value, reached through last_commit
\* (IncrementalUpdate.get_previous_metadata / get_previous_value).  fuel
\* bounds the walk: a chain longer than the history is a cycle.
RECURSIVE Apply(_, _, _, _, _)
RECURSIVE ApplyBy(_, _, _, _, _, _)
Apply(cs, store, rec, key, fuel) ==
    ApplyBy(rec.theta_metadata.update_type, cs, store, rec, key, fuel)

\* apply of the plug-in named handler on a record.
ApplyBy(handler, cs, store, rec, key, fuel) ==
    IF fuel = 0 THEN Raise("RecursionError")
    ELSE IF handler = "dense" THEN DenseApply(store, rec)
    ELSE LET read == LfsSmudge(store, rec.lfs_metadata)
             lc == rec.theta_metadata.last_commit
         IN IF ~read.ok THEN read
            ELSE IF lc \notin DOMAIN cs THEN Raise("MissingPreviousValue")
            ELSE IF key \notin DOMAIN DocAt(cs, lc) THEN Raise("KeyError")
            ELSE LET previous == Apply(cs, store, DocAt(cs, lc)[key], key, fuel - 1)
                 IN IF ~previous.ok THEN previous
                    ELSE ApplyUpdate(handler, Deserialize(read.value), previous.value)

Fuel(cs) == Cardinality(DOMAIN cs) + 1

\* Update.will_update(param_keys): whether side-loaded update data covers
\* the key; the dense plug-in never side-loads.
WillUpdate(update_type, side, key) ==
    update_type \in IncrementalTypes /\ key \in DOMAIN side

\* The param_hash of a write that reports none.
NoHash == [given |-> FALSE, h |-> 0]

\* A write that stores the parameter itself whatever the update type.
WriteWithoutPrevious(cs, store, update_type, side, new, key, prev) == DenseWrite(new)

\* Update.write(param, param_keys, prev_metadata, repo, path): the blob the
\* plug-in uploads and the optional hash of the reconstructed value.
Write(cs, store, update_type, side, new, key, prev) ==
    IF update_type = "dense" THEN DenseWrite(new)
    ELSE IF key \notin DOMAIN prev THEN Raise("MissingPreviousValue")
    ELSE LET previous == Apply(cs, store, prev[key], key, Fuel(cs)) IN
         IF ~previous.ok THEN previous
         ELSE IF WillUpdate(update_type, side, key)
         THEN LET applied == ApplyUpdate(update_type, side[key], previous.value) IN
              IF ~applied.ok THEN applied
              ELSE Ok([blob |-> Blob(UpdateFormat(update_type), side[key]),
                       hash |-> [given |-> TRUE, h |-> LshHash(applied.value)]])
         ELSE LET update == CalculateUpdate(update_type, new, previous.value) IN
              IF ~update.ok THEN update
              ELSE Ok([blob |-> Blob(UpdateFormat(update_type), update.value),
                       hash |-> NoHash])

----------------------------------------------------------------------------
(* filters.clean *)

NoBlob == Blob("none", Tensor(0, "f32", 0))

NoRecord ==
    [tensor_metadata |-> [shape |-> 0, dtype |-> "f32", hash |-> 0],
     lfs_metadata |-> [version |-> "v1", oid |-> 0, size |-> 0],
     theta_metadata |-> [update_type |-> "none", last_commit |-> 0]]

\* What one _clean task does: the record it returns (or the error it
\* raises), whether it called apply, and the blob it wrote, if any.
Outcome(ok, rec, applied, wrote, blob, err) ==
    [ok |-> ok, rec |-> rec, applied |-> applied, wrote |-> wrote, blob |-> blob,
     err |-> err]

\* A ThetaMetadata that names no commit.
ThetaMetadataNoCommit(update_type, hd) ==
    [update_type |-> update_type, last_commit |-> 0]

\* metadata.ThetaMetadata(update_type=update_handler.name,
\*                        last_commit=git_utils.get_head(repo))
NewThetaMetadata(update_type, hd) ==
    [update_type |-> update_type, last_commit |-> hd]

\* The tail of _clean without the substitution of the plug-in's hash.
CleanWriteKeepingHash(cs, store, hd, update_type, side, new, key, prev, applied) ==
    LET written == Write(cs, store, update_type, side, new, key, prev)
    IN IF ~written.ok
       THEN Outcome(FALSE, NoRecord, applied, FALSE, NoBlob, written.err)
       ELSE Outcome(TRUE,
                    [tensor_metadata |-> FromTensor(new),
                     lfs_metadata |-> LfsClean(written.value.blob),
                     theta_metadata |-> NewThetaMetadata(update_type, hd)],
                    applied, TRUE, written.value.blob, "")

\* The tail of _clean (filters.py 84-108): write the new value and build the
\* new record.
CleanWrite(cs, store, hd, update_type, side, new, key, prev, applied) ==
    LET new_tensor_metadata == FromTensor(new)
        new_theta_metadata == NewThetaMetadata(update_type, hd)
        written == Write(cs, store, update_type, side, new, key, prev)
    IN IF ~written.ok
       THEN Outcome(FALSE, NoRecord, applied, FALSE, NoBlob, written.err)
       ELSE LET tm == IF written.value.hash.given
                      THEN [new_tensor_metadata EXCEPT !.hash = written.value.hash.h]
                      ELSE new_tensor_metadata
            IN Outcome(TRUE,
                       [tensor_metadata |-> tm,
                        lfs_metadata |-> LfsClean(written.value.blob),
                        theta_metadata |-> new_theta_metadata],
                       applied, TRUE, written.value.blob, "")

\* A _clean whose first test is hash_distance <= PARAMETER_ATOL.
CleanKeyAtolInclusive(cs, store, hd, update_type, side, new, key, prev) ==
    LET new_tensor_metadata == FromTensor(new) IN
    IF /\ key \in DOMAIN prev
       /\ prev[key].tensor_metadata.shape = new_tensor_metadata.shape
       /\ prev[key].tensor_metadata.dtype = new_tensor_metadata.dtype
       /\ ~WillUpdate(update_type, side, key)
    THEN LET hash_distance == LshDistance(prev[key].tensor_metadata.hash,
                                          new_tensor_metadata.hash)
         IN IF hash_distance <= PARAMETER_ATOL
            THEN Outcome(TRUE, prev[key], FALSE, FALSE, NoBlob, "")
            ELSE IF hash_distance < LSH_THRESHOLD
            THEN LET param == Apply(cs, store, prev[key], key, Fuel(cs)) IN
                 IF ~param.ok
                 THEN Outcome(FALSE, NoRecord, TRUE, FALSE, NoBlob, param.err)
                 ELSE IF AllClose(param.value, new)
                 THEN Outcome(TRUE, prev[key], TRUE, FALSE, NoBlob, "")
                 ELSE CleanWrite(cs, store, hd, update_type, side, new, key, prev, TRUE)
            ELSE CleanWrite(cs, store, hd, update_type, side, new, key, prev, FALSE)
    ELSE CleanWrite(cs, store, hd, update_type, side, new, key, prev, FALSE)

\* A _clean that keeps the previous record below LSH_THRESHOLD without
\* looking at the values.
CleanKeyWithoutAllClose(cs, store, hd, update_type, side, new, key, prev) ==
    LET new_tensor_metadata == FromTensor(new) IN
    IF /\ key \in DOMAIN prev
       /\ prev[key].tensor_metadata.shape = new_tensor_metadata.shape
       /\ prev[key].tensor_metadata.dtype = new_tensor_metadata.dtype
       /\ ~WillUpdate(update_type, side, key)
    THEN LET hash_distance == LshDistance(prev[key].tensor_metadata.hash,
                                          new_tensor_metadata.hash)
         IN IF hash_distance < PARAMETER_ATOL
            THEN Outcome(TRUE, prev[key], FALSE, FALSE, NoBlob, "")
            ELSE IF hash_distance < LSH_THRESHOLD
            THEN LET param == Apply(cs, store, prev[key], key, Fuel(cs)) IN
                 IF ~param.ok
                 THEN Outcome(FALSE, NoRecord, TRUE, FALSE, NoBlob, param.err)
                 ELSE Outcome(TRUE, prev[key], TRUE, FALSE, NoBlob, "")
            ELSE CleanWrite(cs, store, hd, update_type, side, new, key, prev, FALSE)
    ELSE CleanWrite(cs, store, hd, update_type, side, new, key, prev, FALSE)

\* A _clean that never compares with the previous record.
CleanKeyNoReuse(cs, store, hd, update_type, side, new, key, prev) ==
    CleanWrite(cs, store, hd, update_type, side, new, key, prev, FALSE)

\* _clean(param_keys, new_param) (filters.py 34-108)
CleanKey(cs, store, hd, update_type, side, new, key, prev) ==
    LET new_tensor_metadata == FromTensor(new) IN
    IF /\ key \in DOMAIN prev
       /\ prev[key].tensor_metadata.shape = new_tensor_metadata.shape
       /\ prev[key].tensor_metadata.dtype = new_tensor_metadata.dtype
       /\ ~WillUpdate(update_type, side, key)
    THEN LET hash_distance == LshDistance(prev[key].tensor_metadata.hash,
                                          new_tensor_metadata.hash)
         IN IF hash_distance < PARAMETER_ATOL
            THEN Outcome(TRUE, prev[key], FALSE, FALSE, NoBlob, "")
            ELSE IF hash_distance < LSH_THRESHOLD
            THEN LET param == Apply(cs, store, prev[key], key, Fuel(cs)) IN
                 IF ~param.ok
                 THEN Outcome(FALSE, NoRecord, TRUE, FALSE, NoBlob, param.err)
                 ELSE IF AllClose(param.value, new)
                 THEN Outcome(TRUE, prev[key], TRUE, FALSE, NoBlob, "")
                 ELSE CleanWrite(cs, store, hd, update_type, side, new, key, prev, TRUE)
            ELSE CleanWrite(cs, store, hd, update_type, side, new, key, prev, FALSE)
    ELSE CleanWrite(cs, store, hd, update_type, side, new, key, prev, FALSE)

\* The object store after the blobs of a set of outcomes are stored.
RECURSIVE StoreAll(_, _)
StoreAll(store, blobs) ==
    IF blobs = {} THEN store
    ELSE LET b == CHOOSE x \in blobs : TRUE
         IN StoreAll(LfsStore(store, b), blobs \ {b})

\* A clean that carries over the records of the keys the checkpoint dropped.
CleanAllKeepingRemoved(cs, store, hd, update_type, side, ckpt) ==
    [k \in DOMAIN ckpt \cup DOMAIN DocAt(cs, hd) |->
        IF k \in DOMAIN ckpt
        THEN CleanKey(cs, store, hd, update_type, side, ckpt[k], k, DocAt(cs, hd))
        ELSE Outcome(TRUE, DocAt(cs, hd)[k], FALSE, FALSE, NoBlob, "")]

\* clean(checkpoint, repo, path) (filters.py 20-138) as one step: the
\* outcome of every key's task against the previous document at HEAD.
CleanAll(cs, store, hd, update_type, side, ckpt) ==
    [k \in DOMAIN ckpt |->
        CleanKey(cs, store, hd, update_type, side, ckpt[k], k, DocAt(cs, hd))]

----------------------------------------------------------------------------
(* filters.smudge *)

\* os.environ.get(name) in a process started with GIT_THETA_UPDATE_TYPE set
\* to selected ("" when it is not set).
EnvironGet(selected, name) ==
    IF name = "GIT_THETA_UPDATE_TYPE" THEN selected ELSE ""

\* EnvVarConstants.UPDATE_TYPE: the variable's value, "dense" when not set.
EnvUpdateType(selected) == IF selected # "" THEN selected ELSE "dense"

\* A choice of plug-in that follows the selected update type.
HandlerNameOfSelected(update_type, selected) == EnvUpdateType(selected)

\* updates.get_update_handler_name(update_type):
\* update_type or os.environ.get(EnvVarConstants.UPDATE_TYPE) or "dense"
GetUpdateHandlerName(update_type, selected) ==
    IF update_type # "" THEN update_type
    ELSE IF EnvironGet(selected, EnvUpdateType(selected)) # ""
    THEN EnvironGet(selected, EnvUpdateType(selected))
    ELSE "dense"

\* smudge(cleaned_metadata, repo, path): every record's plug-in, named by the
\* record, rebuilds the parameter; any failure raises.
Smudge(cs, store, doc, selected) ==
    LET vals == [k \in DOMAIN doc |->
                    ApplyBy(GetUpdateHandlerName(doc[k].theta_metadata.update_type, selected),
                            cs, store, doc[k], k, Fuel(cs))]
    IN IF \A k \in DOMAIN doc : vals[k].ok
       THEN Ok([k \in DOMAIN doc |-> vals[k].value])
       ELSE Raise("SmudgeError")

----------------------------------------------------------------------------
(* The repository: commits of the model file made through clean *)

\* The side-loaded update data a clean may be given (GIT_THETA_UPDATE_DATA_PATH).
SideLoads == {<< >>}

\* The update types chosen for a commit (--update-type / GIT_THETA_UPDATE_TYPE).
ChosenTypes == {"dense", "sparse", "low-rank"}

IdleMap == [phase |-> "idle"]

\* What the filter process wrote to stdout: nothing yet, or a document.
NothingWritten == [written |-> FALSE, doc |-> << >>]

Written(doc) == [written |-> TRUE, doc |-> doc]

IdleFilter == [stdout |-> NothingWritten, exit |-> -1]

IdleHook == [hook |-> "none"]

NoLoad == [commit |-> 0, ok |-> FALSE, ckpt |-> << >>]

Init ==
    /\ commits = << >>
    /\ head = 0
    /\ lfsObjects = << >>
    /\ loaded = NoLoad
    /\ ledger = << >>
    /\ remoteRef = << >>
    /\ lfsPushed = << >>
    /\ hookLog = IdleHook
    /\ mapState = IdleMap
    /\ filterOut = IdleFilter
    /\ metaFile = NoDocument
    /\ attrFile = NoAttributes
    /\ updateRun = NoUpdate
    /\ storeRun = NoStoreRun

\* The commit save_to_git makes of the outcomes of a clean that did not
\* raise: its document, and what the model remembers of the clean.
NewCommit(hd, ckpt, update_type, side, outs, new_oids) ==
    [parent |-> hd,
     tree |-> [k \in DOMAIN outs |-> outs[k].rec],
     ckpt |-> ckpt,
     update_type |-> update_type,
     side |-> side,
     written |-> {k \in DOMAIN ckpt : outs[k].wrote},
     applied |-> {k \in DOMAIN ckpt : outs[k].applied},
     new_oids |-> new_oids]

\* The blobs the tasks of a clean wrote.
WrittenBlobs(outs) == {outs[k].blob : k \in {j \in DOMAIN outs : outs[j].wrote}}

\* api.save_to_git (or "git add" followed by "git commit"): clean the
\* checkpoint against HEAD, stage the document and commit it.  The commit
\* remembers the checkpoint it was made from and what its clean did.
SaveToGit(ckpt, update_type, side) ==
    LET outs == CleanAll(commits, lfsObjects, head, update_type, side, ckpt)
        stored == StoreAll(lfsObjects, WrittenBlobs(outs))
    IN /\ Len(commits) < MaxCommits
       /\ \A k \in DOMAIN ckpt : outs[k].ok
       /\ commits' = Append(commits,
              NewCommit(head, ckpt, update_type, side, outs,
                        DOMAIN stored \ DOMAIN lfsObjects))
       /\ head' = Len(commits) + 1
       /\ lfsObjects' = stored
       /\ loaded' = NoLoad
       /\ UNCHANGED <<ledgerVars, mapVars, fileVars>>

\* The objects of the store that no committed document names.
Orphans(cs, store) ==
    DOMAIN store \
        {cs[c].tree[k].lfs_metadata.oid : <<c, k>> \in
            {ck \in (DOMAIN cs) \X ParamKeys : ck[2] \in DOMAIN cs[ck[1]].tree}}

\* A clean in which some key's task raises: clean raises, nothing is staged
\* and no commit is made; the tasks that did finish have stored their blobs.
CleanRaises(ckpt, update_type, side) ==
    LET outs == CleanAll(commits, lfsObjects, head, update_type, side, ckpt)
        writers == {k \in DOMAIN ckpt : outs[k].ok /\ outs[k].wrote}
    IN /\ Len(commits) < MaxCommits
       /\ \E k \in DOMAIN ckpt : ~outs[k].ok
       /\ \E done \in SUBSET writers :
            /\ lfsObjects' = StoreAll(lfsObjects, {outs[k].blob : k \in done})
            /\ Cardinality(Orphans(commits, lfsObjects')) <= MaxOrphans
       /\ UNCHANGED <<commits, head, loaded, ledgerVars, mapVars, fileVars>>

\* api.load_from_git(sha_or_tag, path, checkout): smudge the document of a
\* commit; with checkout, HEAD moves to that commit.  The model stops at its
\* last commit.
LoadFromGit(c, checkout) ==
    \E selected \in ChosenTypes \cup {""} :
    LET ckpt == Smudge(commits, lfsObjects, DocAt(commits, c), selected)
    IN /\ c \in DOMAIN commits
       /\ Len(commits) < MaxCommits
       /\ loaded' = [commit |-> c, ok |-> ckpt.ok,
                     ckpt |-> IF ckpt.ok THEN ckpt.value ELSE << >>]
       /\ head' = IF checkout /\ ckpt.ok THEN c ELSE head
       /\ UNCHANGED <<commits, lfsObjects, ledgerVars, mapVars, fileVars>>

Next ==
    \/ \E ckpt \in Checkpoints, u \in ChosenTypes, side \in SideLoads :
         SaveToGit(ckpt, u, side)
    \/ \E ckpt \in Checkpoints, u \in ChosenTypes, side \in SideLoads :
         CleanRaises(ckpt, u, side)
    \/ \E c \in DOMAIN commits, checkout \in BOOLEAN : LoadFromGit(c, checkout)

Spec == Init /\ [][Next]_vars

----------------------------------------------------------------------------
(* Properties of clean, smudge and the last_commit chain (Spec) *)

\* A commit made by cleaning again the checkpoint and update type of its
\* parent, with no side-loaded data.
IsReclean(c) ==
    /\ commits[c].parent # 0
    /\ commits[c].ckpt = commits[commits[c].parent].ckpt
    /\ commits[c].update_type = commits[commits[c].parent].update_type
    /\ commits[c].side = << >>
    /\ commits[commits[c].parent].side = << >>

\* C1: when the document at HEAD is the result of cleaning checkpoint X,
\* cleaning X again with the same update type and no side-loaded data raises
\* in no key, calls write for no key and returns, for every key, the record
\* of the document at HEAD; a commit made that way has its parent's document
\* and added no object id to the store.
C1_CleanIdempotent ==
    /\ (head # 0 /\ commits[head].side = << >>) =>
         LET again == CleanAll(commits, lfsObjects, head,
                               commits[head].update_type, << >>, commits[head].ckpt)
         IN \A k \in DOMAIN commits[head].ckpt :
              /\ again[k].ok
              /\ ~again[k].wrote
              /\ again[k].rec = commits[head].tree[k]
    /\ \A c \in DOMAIN commits :
         IsReclean(c) =>
            /\ commits[c].tree = commits[commits[c].parent].tree
            /\ commits[c].written = {}
            /\ commits[c].new_oids = {}

\* A checkpoint of both parameters was cleaned again with an incremental
\* update type, one of its records having gone through apply and allclose.
C1_Witness ==
    \E c \in DOMAIN commits :
        /\ IsReclean(c)
        /\ DOMAIN commits[c].ckpt = ParamKeys
        /\ commits[c].update_type \in IncrementalTypes
        /\ commits[c].applied # {}

\* The first commit of a repository, made with the dense update type.
IsDenseRoot(c) ==
    /\ c \in DOMAIN commits
    /\ commits[c].parent = 0
    /\ commits[c].update_type = "dense"

C11_KeysFollowCheckpoint ==
    \A c \in DOMAIN commits :
        /\ DOMAIN commits[c].tree = DOMAIN commits[c].ckpt
        /\ \A k \in DOMAIN DocAt(commits, commits[c].parent) \ DOMAIN commits[c].ckpt :
              k \notin DOMAIN commits[c].tree
        /\ \A k \in DOMAIN commits[c].ckpt \ DOMAIN DocAt(commits, commits[c].parent) :
              /\ k \in commits[c].written
              /\ commits[c].tree[k].theta_metadata =
                    [update_type |-> commits[c].update_type,
                     last_commit |-> commits[c].parent]
              /\ commits[c].tree[k].lfs_metadata.oid \in DOMAIN lfsObjects

\* A commit whose checkpoint lacks a key of its parent's document and has a
\* key that document lacks.
C11_Witness ==
    \E c \in DOMAIN commits :
        /\ commits[c].parent # 0
        /\ DOMAIN DocAt(commits, commits[c].parent) \ DOMAIN commits[c].ckpt # {}
        /\ DOMAIN commits[c].ckpt \ DOMAIN DocAt(commits, commits[c].parent) # {}
        /\ DOMAIN commits[c].tree = DOMAIN commits[c].ckpt

\* C12: smudge returns a checkpoint with the keys of the document, the value
\* of each key being apply of the plug-in its own record names, whatever the
\* update type selected for the process; load_from_git returns that
\* checkpoint.
C12_SmudgeByRecordType ==
    /\ \A c \in DOMAIN commits : \A selected \in ChosenTypes \cup {""} :
         LET doc == DocAt(commits, c)
             s == Smudge(commits, lfsObjects, doc, selected)
         IN /\ s.ok = (\A k \in DOMAIN doc :
                          Apply(commits, lfsObjects, doc[k], k, Fuel(commits)).ok)
            /\ s.ok =>
                 /\ DOMAIN s.value = DOMAIN doc
                 /\ \A k \in DOMAIN doc :
                       s.value[k] = ApplyBy(doc[k].theta_metadata.update_type, commits,
                                            lfsObjects, doc[k], k, Fuel(commits)).value
    /\ (loaded.commit # 0 /\ loaded.ok) =>
         /\ DOMAIN loaded.ckpt = DOMAIN DocAt(commits, loaded.commit)
         /\ \A k \in DOMAIN loaded.ckpt :
               loaded.ckpt[k] = Apply(commits, lfsObjects, DocAt(commits, loaded.commit)[k],
                                      k, Fuel(commits)).value

\* A loaded document holds a dense record and an incremental record whose
\* stored update is not the parameter's value.
C12_Witness ==
    /\ loaded.commit # 0
    /\ loaded.ok
    /\ \E k \in DOMAIN loaded.ckpt :
         DocAt(commits, loaded.commit)[k].theta_metadata.update_type = "dense"
    /\ \E k \in DOMAIN loaded.ckpt :
         /\ DocAt(commits, loaded.commit)[k].theta_metadata.update_type \in IncrementalTypes
         /\ lfsObjects[DocAt(commits, loaded.commit)[k].lfs_metadata.oid].val # loaded.ckpt[k].val

RECURSIVE ChainReachesDense(_, _, _, _)
ChainReachesDense(cs, rec, key, fuel) ==
    IF rec.theta_metadata.update_type = "dense" THEN TRUE
    ELSE /\ fuel > 0
         /\ rec.theta_metadata.last_commit \in DOMAIN cs
         /\ key \in DOMAIN cs[rec.theta_metadata.last_commit].tree
         /\ ChainReachesDense(cs, cs[rec.theta_metadata.last_commit].tree[key],
                              key, fuel - 1)

\* The number of last_commit steps from a record to its dense record.
RECURSIVE ChainLength(_, _, _)
ChainLength(cs, rec, key) ==
    IF rec.theta_metadata.update_type = "dense" THEN 0
    ELSE 1 + ChainLength(cs, cs[rec.theta_metadata.last_commit].tree[key], key)

PrevDoc(c) == DocAt(commits, commits[c].parent)

Comparable(c, k) ==
    /\ k \in DOMAIN PrevDoc(c)
    /\ PrevDoc(c)[k].tensor_metadata.shape = commits[c].ckpt[k].shape
    /\ PrevDoc(c)[k].tensor_metadata.dtype = commits[c].ckpt[k].dtype
    /\ ~WillUpdate(commits[c].update_type, commits[c].side, k)

\* The LSH distance between the previous hash and the hash of the new
\* tensor of key k.
HashDistance(c, k) ==
    LshDistance(PrevDoc(c)[k].tensor_metadata.hash, LshHash(commits[c].ckpt[k]))

\* C21: for a key with a previous record of equal shape and dtype and no
\* side-loaded update, a hash distance strictly below PARAMETER_ATOL makes
\* clean emit the previous record unchanged without calling apply or write
\* for the key; at a distance equal to PARAMETER_ATOL the shortcut is not
\* taken (the previous tensor is loaded).
C21_ReuseBelowAtol ==
    \A c \in DOMAIN commits : \A k \in DOMAIN commits[c].ckpt :
        Comparable(c, k) =>
            /\ HashDistance(c, k) < PARAMETER_ATOL =>
                  /\ commits[c].tree[k] = PrevDoc(c)[k]
                  /\ k \notin commits[c].applied
                  /\ k \notin commits[c].written
            /\ HashDistance(c, k) = PARAMETER_ATOL => k \in commits[c].applied

\* One clean kept the record of a parameter whose value changed below the
\* resolution of the hash, and a clean met a distance of exactly
\* PARAMETER_ATOL.
C21_Witness ==
    /\ \E c \in DOMAIN commits : \E k \in DOMAIN commits[c].ckpt :
          /\ Comparable(c, k)
          /\ HashDistance(c, k) < PARAMETER_ATOL
          /\ commits[c].ckpt[k] # commits[commits[c].parent].ckpt[k]
          /\ commits[c].tree[k] = PrevDoc(c)[k]
    /\ \E c \in DOMAIN commits : \E k \in DOMAIN commits[c].ckpt :
          /\ Comparable(c, k)
          /\ HashDistance(c, k) = PARAMETER_ATOL
          /\ k \in commits[c].applied

----------------------------------------------------------------------------
(* Cleans with side-loaded update data and tensors of another dtype, in a   *)
(* history of at most MaxSideCommits commits                                *)

MaxSideCommits == 2

\* Side-loaded update data: none, or an update of the first parameter.
WideSideLoads == {<< >>, [k \in {1} |-> Tensor(1, "f32", 1)]}

\* The checkpoints, and those whose second parameter is of another dtype.
WideCheckpoints ==
    Checkpoints \cup
        {[k \in DOMAIN c |-> IF k = 2 THEN Tensor(1, "f64", c[k].val) ELSE c[k]] :
            c \in {x \in Checkpoints : 2 \in DOMAIN x}}

\* save_to_git with update data side-loaded through UPDATE_DATA_PATH.
SaveSideLoaded(ckpt, update_type, side) ==
    /\ Len(commits) < MaxSideCommits
    /\ SaveToGit(ckpt, update_type, side)

\* The same for a clean that raises.
CleanSideLoadedRaises(ckpt, update_type, side) ==
    /\ Len(commits) < MaxSideCommits
    /\ CleanRaises(ckpt, update_type, side)

NextSide ==
    \/ \E ckpt \in WideCheckpoints, u \in ChosenTypes, side \in WideSideLoads :
         SaveSideLoaded(ckpt, u, side)
    \/ \E ckpt \in WideCheckpoints, u \in ChosenTypes, side \in WideSideLoads :
         CleanSideLoadedRaises(ckpt, u, side)

SpecSide == Init /\ [][NextSide]_vars

\* The value the previous record of key k stands for.
PrevValue(c, k) == Apply(commits, lfsObjects, PrevDoc(c)[k], k, Fuel(commits))

\* The record of key k was built by the clean of commit c: write was called
\* for the key and the record carries the selected update type and the
\* HEAD of the clean.
NewlyBuilt(c, k) ==
    /\ k \in commits[c].written
    /\ commits[c].tree[k].theta_metadata =
          [update_type |-> commits[c].update_type, last_commit |-> commits[c].parent]
    /\ commits[c].tree[k].lfs_metadata.oid \in DOMAIN lfsObjects

\* C22: under the preconditions of C21, with PARAMETER_ATOL <= d <
\* LSH_THRESHOLD the previous tensor is loaded through the plug-in of the
\* previous record and the previous record is emitted iff
\* allclose(previous, new); when that test fails, when d >= LSH_THRESHOLD, or
\* when a precondition fails (no previous record, another shape or dtype,
\* will_update true), write of the selected plug-in is called for the key
\* and a new record is emitted.
C22_CompareThenWrite ==
    \A c \in DOMAIN commits : \A k \in DOMAIN commits[c].ckpt :
        IF Comparable(c, k) /\ HashDistance(c, k) < LSH_THRESHOLD
        THEN HashDistance(c, k) >= PARAMETER_ATOL =>
                /\ k \in commits[c].applied
                /\ PrevValue(c, k).ok
                /\ IF AllClose(PrevValue(c, k).value, commits[c].ckpt[k])
                   THEN commits[c].tree[k] = PrevDoc(c)[k] /\ k \notin commits[c].written
                   ELSE NewlyBuilt(c, k)
        ELSE NewlyBuilt(c, k)

\* Reachable: a record kept after the previous tensor was loaded and
\* allclose held.
KeptAfterAllClose ==
    \E c \in DOMAIN commits : \E k \in DOMAIN commits[c].ckpt :
        /\ Comparable(c, k)
        /\ HashDistance(c, k) = PARAMETER_ATOL
        /\ AllClose(PrevValue(c, k).value, commits[c].ckpt[k])
        /\ commits[c].ckpt[k] # PrevValue(c, k).value
        /\ commits[c].tree[k] = PrevDoc(c)[k]

\* In the second commit of a history a record was written after the
\* previous tensor was loaded and allclose failed, and another was written
\* at exactly LSH_THRESHOLD, for another dtype or for a side-loaded key.
C22_Witness ==
    /\ Len(commits) = 2
    /\ \E k \in DOMAIN commits[2].ckpt :
          /\ Comparable(2, k)
          /\ HashDistance(2, k) = PARAMETER_ATOL
          /\ k \in commits[2].applied
          /\ ~AllClose(PrevValue(2, k).value, commits[2].ckpt[k])
          /\ k \in commits[2].written
    /\ \E k \in DOMAIN commits[2].ckpt :
          \/ Comparable(2, k) /\ HashDistance(2, k) = LSH_THRESHOLD /\ k \in commits[2].written
          \/ /\ k \in DOMAIN PrevDoc(2)
             /\ PrevDoc(2)[k].tensor_metadata.dtype # commits[2].ckpt[k].dtype
             /\ k \in commits[2].written
          \/ WillUpdate(commits[2].update_type, commits[2].side, k) /\ k \in commits[2].written

\* The hash write returns for key k of commit c, if it returns one.
OverrideHash(c, k) ==
    Write(commits, lfsObjects, commits[c].update_type, commits[c].side,
          commits[c].ckpt[k], k, PrevDoc(c)).value.hash

\* C23: a record newly built by clean has update_type equal to the name of
\* the selected plug-in, last_commit equal to HEAD at the time of the clean
\* (none in a repository without commits), the object-store metadata of
\* what write stored, the shape and dtype of the new tensor, and as hash the
\* hash write returned when it returned one, else the LSH hash of the new
\* tensor.
C23_NewRecordFields ==
    \A c \in DOMAIN commits : \A k \in commits[c].written :
        LET rec == commits[c].tree[k]
            new == commits[c].ckpt[k]
        IN  /\ rec.theta_metadata.update_type = commits[c].update_type
            /\ rec.theta_metadata.last_commit = commits[c].parent
            /\ rec.lfs_metadata.oid \in DOMAIN lfsObjects
            /\ rec.lfs_metadata = LfsClean(lfsObjects[rec.lfs_metadata.oid])
            /\ rec.tensor_metadata.shape = new.shape
            /\ rec.tensor_metadata.dtype = new.dtype
            /\ rec.tensor_metadata.hash =
                  IF OverrideHash(c, k).given THEN OverrideHash(c, k).h ELSE LshHash(new)

\* A first commit built its records without a HEAD, and a second commit
\* holds a record whose hash is the one write returned for side-loaded
\* data, not that of the tensor in the checkpoint.
C23_Witness ==
    /\ Len(commits) = 2
    /\ commits[1].written # {}
    /\ \E k \in commits[2].written :
          /\ OverrideHash(2, k).given
          /\ commits[2].tree[k].tensor_metadata.hash # LshHash(commits[2].ckpt[k])
          /\ commits[2].tree[k].theta_metadata.last_commit = 1

----------------------------------------------------------------------------
(* The filter process: run_clean / run_smudge over async_utils.run_map *)

\* The parameter keys of the checkpoints the filter process is given.
MapKeys == {1, 2, 3}

\* The values of GIT_THETA_MAX_CONCURRENCY.
Concurrencies == {-1, 0, 1, 2}

\* The checkpoint committed before the filter process runs.
BaseCkpt == [k \in {1, 2} |-> IF k = 1 THEN Tensor(1, "f32", 0) ELSE Tensor(1, "f32", 4)]

\* The tensors of the checkpoint the clean filter is given: per key, the
\* committed value or a changed one; the third key is new.
MapTensors(k) ==
    CASE k = 1 -> {Tensor(1, "f32", 0), Tensor(1, "f32", 3)}
      [] k = 2 -> {Tensor(1, "f32", 4), Tensor(1, "f32", 1)}
      [] OTHER -> {Tensor(1, "f32", 0)}

MapCheckpoints ==
    UNION {{c \in [ks -> UNION {MapTensors(k) : k \in MapKeys}] :
               \A k \in ks : c[k] \in MapTensors(k)} :
           ks \in SUBSET MapKeys}

BaseOuts == CleanAll(<< >>, << >>, 0, "dense", << >>, BaseCkpt)

BaseStore == StoreAll(<< >>, WrittenBlobs(BaseOuts))

BaseCommits == <<NewCommit(0, BaseCkpt, "dense", << >>, BaseOuts, DOMAIN BaseStore)>>

\* An object store a clone did not fetch every object into.
Restrict(store, oids) == [o \in DOMAIN store \cap oids |-> store[o]]

\* run_map treats only a positive max_concurrency as a bound.
LimitedAboveOne(max_concurrency) == max_concurrency > 1

\* async_utils.run_map: "if max_concurrency > 0" makes the semaphore.
Limited(max_concurrency) == max_concurrency > 0

\* The state of the filter process when clean or smudge enters its driver:
\* the mapping sorted by key, one task per key not yet started.
StartMap(op, mapping, update_type, max_concurrency, low_memory) ==
    [phase |-> "running",
     op |-> op,
     mapping |-> mapping,
     update_type |-> update_type,
     max_concurrency |-> max_concurrency,
     low_memory |-> low_memory,
     order |-> SortedKeys(DOMAIN mapping),
     pc |-> [k \in DOMAIN mapping |-> "created"],
     out |-> << >>,
     finished |-> << >>,
     sem |-> IF Limited(max_concurrency) /\ ~low_memory THEN max_concurrency ELSE 0,
     raised |-> 0,
     orphans |-> {},
     sorted_checkpoint |-> DOMAIN mapping,
     index |-> << >>]

InitMap ==
    /\ commits = BaseCommits
    /\ head = 1
    /\ \E missing \in SUBSET DOMAIN BaseStore :
         lfsObjects = Restrict(BaseStore, DOMAIN BaseStore \ missing)
    /\ loaded = NoLoad
    /\ ledger = << >>
    /\ remoteRef = << >>
    /\ lfsPushed = << >>
    /\ hookLog = IdleHook
    /\ filterOut = IdleFilter
    /\ metaFile = NoDocument
    /\ attrFile = NoAttributes
    /\ updateRun = NoUpdate
    /\ storeRun = NoStoreRun
    /\ \/ \E ckpt \in MapCheckpoints, u \in {"dense", "sparse"},
             n \in Concurrencies, low \in BOOLEAN :
            mapState = StartMap("clean", ckpt, u, n, low)
       \/ \E n \in Concurrencies :
            mapState = StartMap("smudge", DocAt(BaseCommits, 1), "dense", n, FALSE)

\* The position of a key in the sorted mapping.
Pos(order, k) == CHOOSE i \in 1 .. Len(order) : order[i] = k

\* The tasks that have started and not finished.
InFlight == {k \in DOMAIN mapState.pc : mapState.pc[k] = "running"}

\* The (key, value) result of a _clean task: the record, and the blob written.
CleanResult(o) == [ok |-> o.ok, value |-> o.rec, wrote |-> o.wrote, blob |-> o.blob]

\* The (key, value) result of a _smudge task: the parameter.
SmudgeResult(v) ==
    [ok |-> v.ok, value |-> IF v.ok THEN v.value ELSE Tensor(0, "f32", 0),
     wrote |-> FALSE, blob |-> NoBlob]

\* What the per-key function does when it runs to its end now: _clean on
\* the checkpoint's tensor, or _smudge on the document's record.
TaskOutcome(k) ==
    IF mapState.op = "clean"
    THEN CleanResult(CleanKey(commits, lfsObjects, head, mapState.update_type, << >>,
                              mapState.mapping[k], k, DocAt(commits, head)))
    ELSE SmudgeResult(ApplyBy(GetUpdateHandlerName(
                                  mapState.mapping[k].theta_metadata.update_type,
                                  mapState.update_type),
                              commits, lfsObjects, mapState.mapping[k], k, Fuel(commits)))

\* A loop that leaves the checkpoint as it is.
KeepInCheckpoint(sorted_checkpoint, k) == sorted_checkpoint

\* clean, low-memory loop: "v = sorted_checkpoint.pop(k)" takes the key out
\* of the checkpoint before _clean(k, v) is run.
Pop(sorted_checkpoint, k) == sorted_checkpoint \ {k}

\* A task takes its first step.  asyncio runs the first steps in the order
\* gather was given the tasks; under the semaphore a task without a permit
\* waits.  In low-memory mode clean runs the keys one after the other, each
\* in its own event loop, and stops at the first that raises.
Start(k) ==
    /\ mapState.phase = "running"
    /\ mapState.pc[k] = "created"
    /\ \A j \in DOMAIN mapState.pc :
         Pos(mapState.order, j) < Pos(mapState.order, k) =>
            IF mapState.low_memory THEN mapState.pc[j] = "done"
            ELSE mapState.pc[j] # "created"
    /\ IF Limited(mapState.max_concurrency) /\ ~mapState.low_memory
       THEN IF mapState.sem > 0
            THEN mapState' = [mapState EXCEPT !.pc[k] = "running", !.sem = @ - 1]
            ELSE mapState' = [mapState EXCEPT !.pc[k] = "waiting"]
       ELSE IF mapState.low_memory /\ mapState.op = "clean"
            THEN mapState' = [mapState EXCEPT
                     !.pc[k] = "running",
                     !.sorted_checkpoint = Pop(@, k)]
            ELSE mapState' = [mapState EXCEPT !.pc[k] = "running"]
    /\ UNCHANGED <<repoVars, ledgerVars, filterOut, fileVars>>

\* A waiting task is given the permit another task released.
Acquire(k) ==
    /\ mapState.phase = "running"
    /\ mapState.pc[k] = "waiting"
    /\ mapState.sem > 0
    /\ \A j \in DOMAIN mapState.pc :
         mapState.pc[j] = "waiting" => Pos(mapState.order, k) <= Pos(mapState.order, j)
    /\ mapState' = [mapState EXCEPT !.pc[k] = "running", !.sem = @ - 1]
    /\ UNCHANGED <<repoVars, ledgerVars, filterOut, fileVars>>

\* A task that gives its permit back only when it returns.
TaskEndedHoldingOnRaise(k, o) ==
    [mapState EXCEPT
        !.pc[k] = IF o.ok THEN "done" ELSE "failed",
        !.out = IF o.ok
                THEN [j \in DOMAIN @ \cup {k} |-> IF j = k THEN o.value ELSE @[j]]
                ELSE @,
        !.finished = Append(@, k),
        !.sem = IF Limited(mapState.max_concurrency) /\ ~mapState.low_memory /\ o.ok
                THEN @ + 1 ELSE @]

\* The state of run_map after task k ended with outcome o.
TaskEnded(k, o) ==
    [mapState EXCEPT
        !.pc[k] = IF o.ok THEN "done" ELSE "failed",
        !.out = IF o.ok
                THEN [j \in DOMAIN @ \cup {k} |-> IF j = k THEN o.value ELSE @[j]]
                ELSE @,
        !.finished = Append(@, k),
        !.sem = IF Limited(mapState.max_concurrency) /\ ~mapState.low_memory
                THEN @ + 1 ELSE @]

\* The object store after a task ended with outcome o.
StoreAfter(store, o) == IF o.ok /\ o.wrote THEN LfsStore(store, o.blob) ELSE store

\* Task k ends with outcome o.
EndsWith(k, o) ==
    /\ mapState' = TaskEnded(k, o)
    /\ lfsObjects' = StoreAfter(lfsObjects, o)

\* A running task ends: it returns its (key, value) pair, having stored the
\* blob it wrote, or it raises; "async with sem" releases the permit.
Finish(k) ==
    /\ mapState.phase = "running"
    /\ mapState.pc[k] = "running"
    /\ EndsWith(k, TaskOutcome(k))
    /\ UNCHANGED <<commits, head, loaded, ledgerVars, filterOut, fileVars>>

\* A driver that hands back what the tasks that did not raise returned.
GatherIgnoringErrors(pc) ==
    IF \A k \in DOMAIN pc : pc[k] \in {"done", "failed"} THEN "return" ELSE "pending"

\* What "await asyncio.gather(...)" (or the low-memory loop) does next: it
\* raises the first exception of a task, returns when every task returned.
GatherStep(pc) ==
    IF \E k \in DOMAIN pc : pc[k] = "failed" THEN "raise"
    ELSE IF \A k \in DOMAIN pc : pc[k] = "done" THEN "return"
    ELSE "pending"

\* The results in the order of completion.
GatherAsCompleted(order, finished) == finished

\* asyncio.gather returns the results in the order of its arguments, the
\* sorted mapping's, whatever the order of completion.
Gather(order, finished) == order

\* dict(gathered) as the filter serialises it: the (key, value) pairs of the
\* keys that returned, in order.
Document(keys, out) ==
    LET present == SelectSeq(keys, LAMBDA k : k \in DOMAIN out)
    IN [i \in 1 .. Len(present) |-> <<present[i], out[present[i]]>>]

\* clean / smudge returns and run_clean / run_smudge writes the result to
\* stdout; the process exits with status 0.
FilterReturns ==
    /\ mapState.phase = "running"
    /\ GatherStep(mapState.pc) = "return"
    /\ mapState' = [mapState EXCEPT !.phase = "returned"]
    /\ filterOut' = [stdout |-> Written(Document(Gather(mapState.order, mapState.finished),
                                                 mapState.out)),
                     exit |-> 0]
    /\ UNCHANGED <<repoVars, ledgerVars, fileVars>>

\* The exception "await asyncio.gather(...)" raises when several tasks have
\* failed: the last one.
LastException(pc, finished) ==
    LET failed == SelectSeq(finished, LAMBDA k : pc[k] = "failed")
    IN failed[Len(failed)]

\* The exception "await asyncio.gather(...)" raises: that of the task that
\* failed first, the later ones being dropped.
FirstException(pc, finished) ==
    LET failed == SelectSeq(finished, LAMBDA k : pc[k] = "failed")
    IN failed[1]

\* A task raised: the exception leaves gather, asyncio.run cancels the tasks
\* still pending, clean / smudge raises through main and the interpreter
\* exits with status 1, nothing having been written to stdout.  The tasks
\* cancelled while running leave "async with sem", which gives their permit
\* back, and leave the subprocess they await behind: subprocess_run has no
\* handler that ends it.
FilterRaises ==
    /\ mapState.phase = "running"
    /\ GatherStep(mapState.pc) = "raise"
    /\ mapState' = [mapState EXCEPT
           !.phase = "raised",
           !.pc = [k \in DOMAIN @ |->
                     IF @[k] \in {"done", "failed"} THEN @[k] ELSE "cancelled"],
           !.raised = FirstException(mapState.pc, mapState.finished),
           !.sem = IF Limited(mapState.max_concurrency) /\ ~mapState.low_memory
                   THEN @ + Cardinality(InFlight) ELSE @,
           !.orphans = IF mapState.op = "clean" THEN InFlight ELSE {}]
    /\ filterOut' = [stdout |-> NothingWritten, exit |-> 1]
    /\ UNCHANGED <<repoVars, ledgerVars, fileVars>>

\* The "git lfs clean" a cancelled _clean task had spawned runs to its end
\* after the filter process raised: it stores the blob it was given.
SubprocessEnds(k) ==
    /\ mapState.phase = "raised"
    /\ k \in mapState.orphans
    /\ mapState' = [mapState EXCEPT !.orphans = @ \ {k}]
    /\ lfsObjects' = StoreAfter(lfsObjects, TaskOutcome(k))
    /\ UNCHANGED <<commits, head, loaded, ledgerVars, filterOut, fileVars>>

\* The document clean handed back to its caller: the records of the keys
\* whose task returned.
Cleaned == [k \in DOMAIN mapState.out |-> mapState.out[k]]

\* api.save_to_git after filters.clean returned: the document becomes a blob
\* (make_blob), the blob is added to the index (repo.index.add) and the
\* index is committed; HEAD moves to the new commit.
StageAndCommit ==
    /\ mapState.phase = "returned"
    /\ mapState.op = "clean"
    /\ mapState' = [mapState EXCEPT !.phase = "committed", !.index = Cleaned]
    /\ commits' = Append(commits,
           [parent |-> head,
            tree |-> Cleaned,
            ckpt |-> mapState.mapping,
            update_type |-> mapState.update_type,
            side |-> << >>,
            written |-> {k \in DOMAIN Cleaned :
                            k \notin DOMAIN DocAt(commits, head)
                               \/ Cleaned[k] # DocAt(commits, head)[k]},
            applied |-> {},
            new_oids |-> DOMAIN lfsObjects \ DOMAIN BaseStore])
    /\ head' = Len(commits) + 1
    /\ UNCHANGED <<lfsObjects, loaded, ledgerVars, filterOut, fileVars>>

NextMap ==
    \/ StageAndCommit
    \/ \E k \in DOMAIN mapState.pc : Start(k)
    \/ \E k \in DOMAIN mapState.pc : Acquire(k)
    \/ \E k \in DOMAIN mapState.pc : Finish(k)
    \/ FilterReturns
    \/ FilterRaises
    \/ \E k \in DOMAIN mapState.pc : SubprocessEnds(k)

SpecMap == InitMap /\ [][NextMap]_vars

\* The event loop runs every task that is ready, a per-key function that was
\* started comes to its end, and gather resumes the driver once a task has
\* raised or all have returned.
Progress ==
    \/ \E k \in DOMAIN mapState.pc : Start(k) \/ Acquire(k) \/ Finish(k)
    \/ FilterReturns
    \/ FilterRaises

FairMap == WF_mapState(Progress)

SpecMapFair == InitMap /\ [][NextMap]_vars /\ FairMap

----------------------------------------------------------------------------
(* Properties of the filter process (SpecMap) *)

\* The document clean stands for: a function of the checkpoint, the previous
\* document and HEAD alone (every object of the previous document at hand),
\* its keys in lexicographic order.
ReferenceDocument ==
    LET ref == CleanAll(commits, StoreAll(lfsObjects, WrittenBlobs(BaseOuts)), head,
                        mapState.update_type, << >>, mapState.mapping)
        keys == SortedKeys(DOMAIN mapState.mapping)
    IN [i \in 1 .. Len(keys) |-> <<keys[i], ref[keys[i]].rec>>]

\* C3: whenever clean returns, the document written is the same function of
\* the checkpoint, the previous document and HEAD - the keys in increasing
\* order, each with its record - whatever the order in which the tasks
\* completed, the value of MAX_CONCURRENCY or the low-memory mode.
C3_CleanDeterministic ==
    (mapState.phase = "returned" /\ mapState.op = "clean") =>
        /\ filterOut.stdout = Written(ReferenceDocument)
        /\ \A i \in 1 .. Len(filterOut.stdout.doc) - 1 :
             filterOut.stdout.doc[i][1] < filterOut.stdout.doc[i + 1][1]

\* A clean of three keys returned after its tasks completed in an order that
\* is not the key order, one of them having written a new object.
C3_Witness ==
    /\ mapState.phase = "returned"
    /\ mapState.op = "clean"
    /\ Len(mapState.order) = 3
    /\ mapState.finished # mapState.order
    /\ \E k \in DOMAIN mapState.out :
         mapState.out[k].theta_metadata.last_commit = head

\* C4: once the task of one key has raised, clean / smudge never returns:
\* nothing is written to the filter's output, neither while the tasks run nor
\* after, and the process exits with a non-zero status; the output is
\* written, with status 0, only when every task returned.
C4_ErrorAborts ==
    /\ (\E k \in DOMAIN mapState.pc : mapState.pc[k] = "failed") =>
          /\ mapState.phase # "returned"
          /\ filterOut.stdout = NothingWritten
          /\ filterOut.exit # 0
    /\ mapState.phase = "running" => filterOut = IdleFilter
    /\ mapState.phase = "raised" => (filterOut.stdout = NothingWritten /\ filterOut.exit = 1)
    /\ filterOut.exit = 0 =>
          /\ \A k \in DOMAIN mapState.pc : mapState.pc[k] = "done"
          /\ Len(filterOut.stdout.doc) = Cardinality(DOMAIN mapState.mapping)

\* A concurrent clean raised after one task had returned its record and
\* while another had not ended.
C4_Witness ==
    /\ mapState.phase = "raised"
    /\ mapState.op = "clean"
    /\ ~mapState.low_memory
    /\ \E k \in DOMAIN mapState.pc : mapState.pc[k] = "done"
    /\ \E k \in DOMAIN mapState.pc : mapState.pc[k] = "cancelled"
    /\ filterOut.exit = 1

\* A clean in low-memory mode raised after an earlier key had returned.
LowMemoryCleanRaised ==
    /\ mapState.phase = "raised"
    /\ mapState.op = "clean"
    /\ mapState.low_memory
    /\ \E k \in DOMAIN mapState.pc : mapState.pc[k] = "done"
    /\ filterOut.exit = 1

\* A smudge raised.
SmudgeRaised ==
    /\ mapState.phase = "raised"
    /\ mapState.op = "smudge"
    /\ filterOut = [stdout |-> NothingWritten, exit |-> 1]

\* C10: with max_concurrency = n > 0 at most n tasks have started and not
\* ended; with max_concurrency <= 0 no task ever waits for a permit.
C10_BoundedInFlight ==
    /\ mapState.max_concurrency > 0 =>
          Cardinality(InFlight) <= mapState.max_concurrency
    /\ mapState.max_concurrency <= 0 =>
          \A k \in DOMAIN mapState.pc : mapState.pc[k] # "waiting"

\* Under max_concurrency = 2 two tasks are in flight and the third waits.
C10_Witness ==
    /\ mapState.max_concurrency = 2
    /\ ~mapState.low_memory
    /\ Cardinality(InFlight) = 2
    /\ \E k \in DOMAIN mapState.pc : mapState.pc[k] = "waiting"

\* Without a bound the tasks of all three keys are in flight at once.
AllInFlightUnbounded ==
    /\ mapState.max_concurrency <= 0
    /\ Cardinality(InFlight) = 3

\* The first n elements of a sequence.
Prefix(seq, n) == [i \in 1 .. n |-> seq[i]]

\* C25: in low-memory mode clean takes the keys one at a time in increasing
\* order, a key has left the checkpoint map by the time its task runs, at
\* most one task is in flight, and the document returned is the one the
\* concurrent path returns for the same checkpoint, previous document and
\* HEAD.
C25_LowMemorySequential ==
    (mapState.phase # "idle" /\ mapState.op = "clean" /\ mapState.low_memory) =>
        /\ Cardinality(InFlight) <= 1
        /\ \A k \in DOMAIN mapState.pc : mapState.pc[k] # "waiting"
        /\ mapState.finished = Prefix(mapState.order, Len(mapState.finished))
        /\ \A k \in InFlight :
             /\ k = mapState.order[Len(mapState.finished) + 1]
             /\ k \notin mapState.sorted_checkpoint
        /\ mapState.sorted_checkpoint =
             {k \in DOMAIN mapState.pc : mapState.pc[k] \in {"created", "cancelled"}}
        /\ mapState.phase = "returned" => filterOut.stdout = Written(ReferenceDocument)

\* A low-memory clean of three keys returned, a new object written, with a
\* positive MAX_CONCURRENCY that the mode disregards.
C25_Witness ==
    /\ mapState.phase = "returned"
    /\ mapState.op = "clean"
    /\ mapState.low_memory
    /\ mapState.max_concurrency = 2
    /\ mapState.finished = <<1, 2, 3>>
    /\ mapState.sorted_checkpoint = {}
    /\ \E k \in DOMAIN mapState.out :
         mapState.out[k].theta_metadata.last_commit = head

\* The second key of a low-memory clean is running: the first is done, the
\* third still in the checkpoint.
LowMemoryMidway ==
    /\ mapState.op = "clean"
    /\ mapState.low_memory
    /\ mapState.pc = (1 :> "done" @@ 2 :> "running" @@ 3 :> "created")
    /\ mapState.sorted_checkpoint = {3}

\* The permits of the semaphore that tasks hold.
HeldPermits == mapState.max_concurrency - mapState.sem

\* run_map was given a semaphore.
Bounded == mapState.max_concurrency >= 1 /\ ~mapState.low_memory

\* The driver has come to its end.
Terminated == mapState.phase \in {"returned", "raised", "committed"}

\* C28: with max_concurrency >= 1, per-key calls that terminate make run_map
\* terminate, with no permit held from then on; no task waits for a permit
\* forever.
C28_RunMapTerminates ==
    <>[](Bounded =>
            /\ Terminated
            /\ HeldPermits = 0
            /\ \A k \in DOMAIN mapState.pc : mapState.pc[k] # "waiting")

\* The permits held are those of the tasks in flight, whether tasks returned
\* or raised before.
PermitsAreInFlight ==
    (mapState.phase # "idle" /\ Bounded) => HeldPermits = Cardinality(InFlight)

\* Under max_concurrency = 1 a task raised while another waited for its
\* permit; run_map raised and no permit is held.
C28_Witness ==
    /\ mapState.max_concurrency = 1
    /\ ~mapState.low_memory
    /\ mapState.phase = "raised"
    /\ Len(mapState.finished) >= 2
    /\ \E k \in DOMAIN mapState.pc : mapState.pc[k] = "cancelled"
    /\ HeldPermits = 0

\* Under max_concurrency = 1 three tasks returned one after the other.
ReturnedOneByOne ==
    /\ mapState.max_concurrency = 1
    /\ ~mapState.low_memory
    /\ mapState.phase = "returned"
    /\ Len(mapState.finished) = 3
    /\ HeldPermits = 0

\* C26: the tasks of clean leave the commits, HEAD and the index as they
\* are; save_to_git stages and commits the document only once the task of
\* every key has returned, the document holding a record for each key of the
\* checkpoint; and when clean raised nothing is staged and no commit is made.
C26_CommitAfterAllTasks ==
    /\ mapState.phase \in {"running", "returned", "raised"} =>
          /\ commits = BaseCommits
          /\ head = 1
          /\ mapState.index = << >>
    /\ mapState.phase = "committed" =>
          /\ \A k \in DOMAIN mapState.pc : mapState.pc[k] = "done"
          /\ Len(commits) = 2
          /\ head = 2
          /\ commits[1] = BaseCommits[1]
          /\ DOMAIN commits[2].tree = DOMAIN mapState.mapping
          /\ commits[2].tree = mapState.index
          /\ \A k \in DOMAIN mapState.mapping : commits[2].tree[k] = mapState.out[k]

\* save_to_git committed the document of a concurrent clean of three keys
\* whose tasks had completed out of key order, one object newly written.
C26_Witness ==
    /\ mapState.phase = "committed"
    /\ ~mapState.low_memory
    /\ Len(commits) = 2
    /\ DOMAIN commits[2].tree = {1, 2, 3}
    /\ mapState.finished # mapState.order
    /\ commits[2].written # {}

\* clean raised after the task of another key had stored its object: the
\* store grew and nothing was staged or committed.
RaisedWithoutCommit ==
    /\ mapState.phase = "raised"
    /\ mapState.op = "clean"
    /\ DOMAIN lfsObjects \ DOMAIN BaseStore # {}
    /\ commits = BaseCommits
    /\ mapState.index = << >>

\* The keys whose task failed, in the order in which they failed.
FailedInOrder == SelectSeq(mapState.finished, LAMBDA k : mapState.pc[k] = "failed")

\* The exception the filter process dies of is that of the task that failed
\* first, and once it is raised no task is running or waiting: each is done,
\* failed or cancelled, and none is ever resumed.
SurfacedErrorIsFirst ==
    mapState.phase = "raised" =>
        /\ mapState.raised = FailedInOrder[1]
        /\ \A k \in DOMAIN mapState.pc :
             mapState.pc[k] \in {"done", "failed", "cancelled"}

\* Once the filter process raised, no task returns a record any more.
NoTaskEndsAfterRaise ==
    [][mapState.phase = "raised" =>
          /\ mapState'.finished = mapState.finished
          /\ mapState'.out = mapState.out
          /\ mapState'.pc = mapState.pc]_vars

\* Two tasks failed before the filter process raised.
TwoFailedBeforeRaise ==
    /\ mapState.phase = "raised"
    /\ Len(FailedInOrder) = 2
    /\ mapState.raised = FailedInOrder[1]

\* C24: when a task fails while siblings are pending or running, the
\* siblings are cancelled - from the moment the failure is surfaced no
\* object is written to the object store - and the error surfaced is the one
\* raised first.
C24_SiblingsCancelled ==
    [][mapState.phase = "raised" =>
          /\ lfsObjects' = lfsObjects
          /\ mapState.raised = FailedInOrder[1]]_vars

\* A clean raised and, after that, the subprocess of a cancelled task
\* stored an object that the store did not hold when the failure surfaced.
WrittenAfterRaise ==
    /\ mapState.phase = "raised"
    /\ mapState.op = "clean"
    /\ \A k \in DOMAIN mapState.pc : mapState.pc[k] # "done"
    /\ \E k \in DOMAIN mapState.pc :
         mapState.pc[k] = "cancelled" /\ k \notin mapState.orphans
    /\ DOMAIN lfsObjects \ DOMAIN BaseStore # {}

----------------------------------------------------------------------------
(* The commit ledger (theta.ThetaCommits) and the post-commit and pre-push *)
(* hooks                                                                   *)

\* A hexadecimal name as the regular expressions of utils see it: its
\* length, whether every character is in [0-9a-f], and what it names.
HexName(len, hex, id) == [len |-> len, hex |-> hex, id |-> id]

\* commit.hexsha of the commit numbered c; c = 0 gives the all-zero hash.
Hexsha(c) == HexName(40, TRUE, c)

\* The object id a document's record holds for the object numbered n.
OidName(n) == HexName(64, TRUE, n)

\* utils.is_valid_oid: ^[0-9a-f]{64}$
IsValidOid(oid) == oid.len = 64 /\ oid.hex

\* utils.is_valid_commit_hash: ^[0-9a-f]{40}$
IsValidCommitHash(commit_hash) == commit_hash.len = 40 /\ commit_hash.hex

\* re.match("^0{40}$", start_hash)
IsZeroHash(h) == h.len = 40 /\ h.hex /\ h.id = 0

\* .gitattributes: each line a pattern (the paths it matches) and attributes.
GitAttributes ==
    <<[pattern |-> {"model.pt", "head.pt"},
       attributes |-> {"filter=theta", "merge=theta", "diff=theta"}],
      [pattern |-> {"notes.json"}, attributes |-> {"text"}]>>

Paths == {"model.pt", "head.pt", "notes.json"}

\* config.GitAttributesFile.is_theta_tracked
IsThetaTracked(path) ==
    \E i \in 1 .. Len(GitAttributes) :
        /\ path \in GitAttributes[i].pattern
        /\ "filter=theta" \in GitAttributes[i].attributes

\* The record of a parameter stored as the object numbered n.
ParamRecord(n) ==
    [lfs_metadata |-> [version |-> "v1", oid |-> OidName(n), size |-> 8 + n]]

\* The files of a commit: path -> flattened Metadata document.
FilesAt(cs, c) == IF c \in DOMAIN cs THEN cs[c].files ELSE << >>

\* Metadata.from_commit(repo, path, commit): empty when the commit or the
\* path does not exist.
MetadataFromCommit(cs, c, path) ==
    IF path \in DOMAIN FilesAt(cs, c) THEN FilesAt(cs, c)[path] ELSE << >>

\* Metadata.diff: the keys added, and the shared keys whose lfs_metadata
\* differ.
DiffAdded(curr, prev) == DOMAIN curr \ DOMAIN prev

\* Metadata.diff: the keys removed.
DiffRemoved(curr, prev) == DOMAIN prev \ DOMAIN curr

\* A comparison of the shared keys that keeps those whose tensor metadata
\* are equal.
ModifiedByTensorMetadata(curr, prev) ==
    {k \in DOMAIN curr \cap DOMAIN prev : ~(curr[k].tensor_metadata # prev[k].tensor_metadata)}

DiffModified(curr, prev) ==
    {k \in DOMAIN curr \cap DOMAIN prev : curr[k].lfs_metadata # prev[k].lfs_metadata}

\* A collection that forgets the parameters that were added.
ModifiedOidsOnly(curr, prev) ==
    {curr[k].lfs_metadata.oid : k \in DiffModified(curr, prev)}

\* post_commit: the oids of the added and of the modified parameters.
ChangedOids(curr, prev) ==
    {curr[k].lfs_metadata.oid : k \in DiffAdded(curr, prev) \cup DiffModified(curr, prev)}

\* commit.stats.files: the paths that differ between the commit and its
\* first parent (every path of a root commit), deleted paths included.
StatsFiles(cs, c) ==
    {p \in Paths :
        \/ (p \in DOMAIN FilesAt(cs, c)) # (p \in DOMAIN FilesAt(cs, cs[c].parent))
        \/ /\ p \in DOMAIN FilesAt(cs, c)
           /\ p \in DOMAIN FilesAt(cs, cs[c].parent)
           /\ FilesAt(cs, c)[p] # FilesAt(cs, cs[c].parent)[p]}

\* CommitInfo(oids): ValueError when an oid is not valid.
CommitInfo(oids) ==
    IF \A o \in oids : IsValidOid(o) THEN Ok(oids) ELSE Raise("ValueError")

\* A write that replaces the entry of a commit that has one.
WriteCommitInfoOverwriting(ldg, commit_hash, oids) ==
    IF ~IsValidCommitHash(commit_hash) THEN Raise("ValueError")
    ELSE Ok([h \in DOMAIN ldg \cup {commit_hash} |->
                IF h = commit_hash THEN oids ELSE ldg[h]])

\* ThetaCommits.write_commit_info
WriteCommitInfo(ldg, commit_hash, oids) ==
    IF ~IsValidCommitHash(commit_hash) THEN Raise("ValueError")
    ELSE IF commit_hash \in DOMAIN ldg THEN Raise("ValueError")
    ELSE Ok([h \in DOMAIN ldg \cup {commit_hash} |->
                IF h = commit_hash THEN oids ELSE ldg[h]])

\* The ledger after CommitInfo(oids) is built and written, or the error.
BuildAndWrite(ldg, commit_hash, info) ==
    IF info.ok THEN WriteCommitInfo(ldg, commit_hash, info.value) ELSE info

\* post_commit on the commit c = HEAD: the ledger it leaves, or the error
\* it dies of (commit.tree[path] raises KeyError for a deleted path).
PostCommit(cs, ldg, c) ==
    LET tracked == {p \in StatsFiles(cs, c) : IsThetaTracked(p)}
        oids == UNION {ChangedOids(FilesAt(cs, c)[p],
                                   MetadataFromCommit(cs, cs[c].parent, p)) :
                       p \in tracked}
    IN IF \E p \in tracked : p \notin DOMAIN FilesAt(cs, c)
       THEN Raise("KeyError")
       ELSE BuildAndWrite(ldg, Hexsha(c), CommitInfo(oids))

\* git rev-list: the commits reachable from c through parents, c included.
RECURSIVE RevList(_, _)
RevList(cs, c) ==
    IF c \notin DOMAIN cs THEN {} ELSE {c} \cup RevList(cs, cs[c].parent)

\* A walk that takes the start commit as part of the range.
IterCommitsFromStart(cs, start_hash, end_hash, from_root) ==
    IF from_root THEN RevList(cs, end_hash.id)
    ELSE (RevList(cs, end_hash.id) \ RevList(cs, start_hash.id)) \cup {start_hash.id}

\* repo.iter_commits(rev): "end" alone, or "start..end", the commits
\* reachable from end that are not reachable from start.
IterCommits(cs, start_hash, end_hash, from_root) ==
    IF from_root THEN RevList(cs, end_hash.id)
    ELSE RevList(cs, end_hash.id) \ RevList(cs, start_hash.id)

\* ThetaCommits.get_commit_info_range: the CommitInfo of every commit of the
\* range, one for each commit; get_commit_info raises ValueError for a commit
\* without an entry.
GetCommitInfoRange(cs, ldg, start_hash, end_hash) ==
    LET range == IterCommits(cs, start_hash, end_hash, IsZeroHash(start_hash))
    IN IF \E c \in range : Hexsha(c) \notin DOMAIN ldg
       THEN Raise("ValueError")
       ELSE Ok([c \in range |-> ldg[Hexsha(c)]])

\* ThetaCommits.combine_oid_sets
CombineOidSets(oid_sets) == UNION oid_sets

\* ThetaCommits.get_commit_oids_range
GetCommitOidsRange(cs, ldg, start_hash, end_hash) ==
    LET commit_infos == GetCommitInfoRange(cs, ldg, start_hash, end_hash)
    IN IF commit_infos.ok
       THEN Ok(CombineOidSets({commit_infos.value[c] : c \in DOMAIN commit_infos.value}))
       ELSE commit_infos

\* A lookup that leaves out the ranges it cannot resolve.
GetCommitOidsRangesSkipping(cs, ldg, ranges) ==
    LET oids == [r \in ranges |-> GetCommitOidsRange(cs, ldg, r[1], r[2])]
    IN Ok(CombineOidSets({oids[r].value : r \in {q \in ranges : oids[q].ok}}))

\* ThetaCommits.get_commit_oids_ranges
GetCommitOidsRanges(cs, ldg, ranges) ==
    LET oids == [r \in ranges |-> GetCommitOidsRange(cs, ldg, r[1], r[2])]
    IN IF \A r \in ranges : oids[r].ok
       THEN Ok(CombineOidSets({oids[r].value : r \in ranges}))
       ELSE Raise("ValueError")

\* pre_push: the commit range of a line of the hook's input.
CommitRange(line) == <<line.remote_sha1, line.local_sha1>>

\* pre_push: the oids handed to git_lfs_push_oids, or the error.
PrePush(cs, ldg, lines) ==
    GetCommitOidsRanges(cs, ldg, {CommitRange(l) : l \in lines})

----------------------------------------------------------------------------
(* The repository seen by the hooks: commits, pushes, direct ledger writes *)

Remotes == {"origin", "backup"}

\* The branches of each remote.
RemoteRefs == {<<"origin", "main">>, <<"origin", "dev">>, <<"backup", "main">>}

\* What a commit changes in the files of HEAD.
Edits == {"setA", "addK2", "rmModel", "both", "notes"}

\* A document with one more or one changed record.
WithRecord(doc, k, n) ==
    [j \in DOMAIN doc \cup {k} |-> IF j = k THEN ParamRecord(n) ELSE doc[j]]

\* The files with one more or one changed path.
WithPath(files, p, doc) ==
    [q \in DOMAIN files \cup {p} |-> IF q = p THEN doc ELSE files[q]]

WithoutPath(files, p) == [q \in DOMAIN files \ {p} |-> files[q]]

DocOf(files, p) == IF p \in DOMAIN files THEN files[p] ELSE << >>

\* The files after an edit of the working tree is added.
ApplyEdit(files, e) ==
    CASE e = "setA" -> WithPath(files, "model.pt", WithRecord(DocOf(files, "model.pt"), 1, 1))
      [] e = "addK2" ->
           IF "model.pt" \in DOMAIN files
           THEN WithPath(files, "model.pt", WithRecord(files["model.pt"], 2, 1))
           ELSE files
      [] e = "rmModel" -> WithoutPath(files, "model.pt")
      [] e = "both" ->
           WithPath(WithPath(files, "model.pt", WithRecord(DocOf(files, "model.pt"), 1, 2)),
                    "head.pt", WithRecord(<< >>, 1, 3))
      [] OTHER ->
           WithPath(files, "notes.json", WithRecord(<< >>, 1, 4))

\* The hashes and oid sets a direct call of write_commit_info is given: a
\* hash that names no commit of the repository, and malformed ones.
ForeignHash == HexName(40, TRUE, 99)

WriteHashes == {ForeignHash, HexName(39, TRUE, 99), HexName(40, FALSE, 99)}

WriteOidSets == {{OidName(1)}, {HexName(63, TRUE, 1)}, {OidName(1), HexName(64, FALSE, 2)}}

HookLog(hook, ok, subject, oids) ==
    [hook |-> hook, ok |-> ok, subject |-> subject, oids |-> oids]

InitLedger ==
    /\ commits = << >>
    /\ head = 0
    /\ lfsObjects = << >>
    /\ loaded = NoLoad
    /\ ledger = << >>
    /\ remoteRef = [r \in RemoteRefs |-> 0]
    /\ lfsPushed = [r \in Remotes |-> {}]
    /\ hookLog = IdleHook
    /\ mapState = IdleMap
    /\ filterOut = IdleFilter
    /\ metaFile = NoDocument
    /\ attrFile = NoAttributes
    /\ updateRun = NoUpdate
    /\ storeRun = NoStoreRun

\* The ledger the post-commit hook leaves.
LedgerAfter(ldg, result) == IF result.ok THEN result.value ELSE ldg

\* The post-commit hook ran on commit c with this result.
PostCommitRan(c, result) ==
    /\ ledger' = LedgerAfter(ledger, result)
    /\ hookLog' = HookLog("post-commit", result.ok, "", {})

\* "git commit" of an edit of the files of HEAD, with the post-commit hook
\* git runs after it.
GitCommit(e) ==
    /\ Len(commits) < MaxCommits
    /\ ApplyEdit(FilesAt(commits, head), e) # FilesAt(commits, head)
    /\ commits' = Append(commits,
           [parent |-> head, files |-> ApplyEdit(FilesAt(commits, head), e)])
    /\ head' = Len(commits) + 1
    /\ PostCommitRan(Len(commits) + 1, PostCommit(commits', ledger, Len(commits) + 1))
    /\ UNCHANGED <<lfsObjects, loaded, remoteRef, lfsPushed, mapVars, fileVars>>

\* "git checkout <commit>"
GitCheckout(c) ==
    /\ c \in DOMAIN commits
    /\ c # head
    /\ head' = c
    /\ UNCHANGED <<commits, lfsObjects, loaded, ledgerVars, mapVars, fileVars>>

\* "git theta post-commit" run by hand on a commit the hook already ran on.
PostCommitAgain ==
    /\ head # 0
    /\ PostCommitRan(head, PostCommit(commits, ledger, head))
    /\ UNCHANGED <<repoVars, remoteRef, lfsPushed, mapVars, fileVars>>

\* The lines git gives the pre-push hook when HEAD is pushed to refs.
PushLines(refs) ==
    {[remote_ref |-> r, local_sha1 |-> Hexsha(head), remote_sha1 |-> Hexsha(remoteRef[r])] :
        r \in refs}

\* The pre-push hook ended with this result: git pushes the refs when it
\* exits with 0 and gives up the push when it dies.
PrePushRan(remote, refs, result) ==
    /\ hookLog' = HookLog("pre-push", result.ok, remote,
                          IF result.ok THEN result.value ELSE {})
    /\ lfsPushed' = IF result.ok
                    THEN [lfsPushed EXCEPT ![remote] = @ \cup result.value]
                    ELSE lfsPushed
    /\ remoteRef' = IF result.ok
                    THEN [r \in RemoteRefs |-> IF r \in refs THEN head ELSE remoteRef[r]]
                    ELSE remoteRef

\* "git push <remote> HEAD:<ref> ..." with the pre-push hook git runs first.
GitPush(remote, refs) ==
    /\ head # 0
    /\ refs # {}
    /\ \A r \in refs : r[1] = remote /\ remoteRef[r] # head
    /\ PrePushRan(remote, refs, PrePush(commits, ledger, PushLines(refs)))
    /\ UNCHANGED <<repoVars, ledger, mapVars, fileVars>>

\* A direct write ended with this result.
ApiWriteRan(result) ==
    /\ ledger' = LedgerAfter(ledger, result)
    /\ hookLog' = HookLog("write", result.ok, "", {})

\* A direct call of ThetaCommits.write_commit_info(commit_hash, CommitInfo(oids)).
ApiWrite(commit_hash, oids) ==
    /\ ApiWriteRan(BuildAndWrite(ledger, commit_hash, CommitInfo(oids)))
    /\ UNCHANGED <<repoVars, remoteRef, lfsPushed, mapVars, fileVars>>

NextLedger ==
    \/ \E e \in Edits : GitCommit(e)
    \/ \E c \in DOMAIN commits : GitCheckout(c)
    \/ PostCommitAgain
    \/ \E remote \in Remotes, refs \in SUBSET RemoteRefs : GitPush(remote, refs)
    \/ \E h \in WriteHashes, oids \in WriteOidSets : ApiWrite(h, oids)

SpecLedger == InitLedger /\ [][NextLedger]_vars

----------------------------------------------------------------------------
(* Properties of the ledger and the hooks (SpecLedger) *)

\* The oids named by the records of a document.
OidsOf(doc) == {doc[k].lfs_metadata.oid : k \in DOMAIN doc}

\* The oids named by the tracked documents of commit c.
TrackedOidsAt(c) ==
    UNION {OidsOf(FilesAt(commits, c)[p]) :
           p \in {q \in DOMAIN FilesAt(commits, c) : IsThetaTracked(q)}}

\* Commit c is the commit "from" or one of its ancestors.
RECURSIVE Reaches(_, _)
Reaches(from, c) ==
    /\ from \in DOMAIN commits
    /\ (from = c \/ Reaches(commits[from].parent, c))

\* The commits a remote has: those its refs reach.
PushedCommits(remote) ==
    {c \in DOMAIN commits :
        \E r \in RemoteRefs : r[1] = remote /\ Reaches(remoteRef[r], c)}

\* C6: after any sequence of commits (each followed by the post-commit hook)
\* and pushes (each preceded by the pre-push hook), every oid named in a
\* record of a tracked document of a commit a remote has was handed to the
\* object-store push for that remote.
C6_PushedOidsHandedOver ==
    \A remote \in Remotes : \A c \in PushedCommits(remote) :
        TrackedOidsAt(c) \subseteq lfsPushed[remote]

\* A remote has a commit with a parent, whose tracked document still names
\* the oid of a parameter its parent introduced, while the other remote was
\* handed nothing.
C6_Witness ==
    \E r \in RemoteRefs :
        /\ remoteRef[r] # 0
        /\ commits[remoteRef[r]].parent # 0
        /\ TrackedOidsAt(commits[remoteRef[r]].parent) \cap TrackedOidsAt(remoteRef[r]) # {}
        /\ ledger[Hexsha(remoteRef[r])] # {}
        /\ \E other \in Remotes : other # r[1] /\ lfsPushed[other] = {}

\* The parameters of a document that are new or changed against the
\* document the parent commit has at the same path.
AddedOrModified(doc, parent_doc) ==
    {k \in DOMAIN doc : k \notin DOMAIN parent_doc \/ parent_doc[k] # doc[k]}

\* The tracked paths whose content differs between c and its parent.
TrackedChangedPaths(c) ==
    {p \in Paths :
        /\ IsThetaTracked(p)
        /\ MetadataFromCommit(commits, c, p) # MetadataFromCommit(commits, commits[c].parent, p)}

\* The oid set the entry of commit c is to hold.
ExpectedOids(c) ==
    UNION {{MetadataFromCommit(commits, c, p)[k].lfs_metadata.oid :
               k \in AddedOrModified(MetadataFromCommit(commits, c, p),
                                     MetadataFromCommit(commits, commits[c].parent, p))} :
           p \in TrackedChangedPaths(c)}

\* C7: after post-commit ran for a commit, the ledger holds an entry keyed by
\* the commit's hash whose oid set is the union, over the tracked paths the
\* commit changed, of the oids of the parameters added or modified against
\* the parent's document of the same path.
C7_PostCommitRecords ==
    \A c \in DOMAIN commits :
        /\ Hexsha(c) \in DOMAIN ledger
        /\ ledger[Hexsha(c)] = ExpectedOids(c)

\* Every entry post-commit did write holds that union.
PostCommitEntryIsUnion ==
    \A c \in DOMAIN commits :
        Hexsha(c) \in DOMAIN ledger => ledger[Hexsha(c)] = ExpectedOids(c)

\* A commit that deletes a tracked path has no entry.
DeletionLeavesNoEntry ==
    \A c \in DOMAIN commits :
        (\E p \in TrackedChangedPaths(c) : p \notin DOMAIN FilesAt(commits, c))
            <=> Hexsha(c) \notin DOMAIN ledger

\* An entry holds the oid of an added parameter, an oid that an unchanged
\* parameter of the same document names too.
AddedSharesOidWithUnchanged ==
    \E c \in DOMAIN commits :
        /\ Hexsha(c) \in DOMAIN ledger
        /\ commits[c].parent # 0
        /\ "model.pt" \in DOMAIN FilesAt(commits, c)
        /\ "model.pt" \in DOMAIN FilesAt(commits, commits[c].parent)
        /\ \E k \in DOMAIN FilesAt(commits, c)["model.pt"] :
              /\ k \in DOMAIN FilesAt(commits, commits[c].parent)["model.pt"]
              /\ FilesAt(commits, c)["model.pt"][k] = FilesAt(commits, commits[c].parent)["model.pt"][k]
              /\ FilesAt(commits, c)["model.pt"][k].lfs_metadata.oid \in ledger[Hexsha(c)]

\* The commits reachable from new and not reachable from old.
Covered(old, new) ==
    {c \in DOMAIN commits : Reaches(new, c) /\ ~Reaches(old, c)}

\* The index of a commit in its history: the number of commits it reaches.
RECURSIVE Depth(_)
Depth(c) == IF c \in DOMAIN commits THEN 1 + Depth(commits[c].parent) ELSE 0

\* The lookup for (old, new) against the commits it is to cover.
LookupCovers(old, new, infos, oids) ==
    /\ infos.ok = (\A c \in Covered(old, new) : Hexsha(c) \in DOMAIN ledger)
    /\ oids.ok = infos.ok
    /\ infos.ok =>
         /\ DOMAIN infos.value = Covered(old, new)
         /\ oids.value = UNION {ledger[Hexsha(c)] : c \in Covered(old, new)}
         /\ old \notin Covered(old, new)
         /\ new \in Covered(old, new) \/ Reaches(old, new)
         /\ (old = 0 \/ Reaches(new, old)) =>
               Cardinality(DOMAIN infos.value) = Depth(new) - Depth(old)
         /\ old = 0 =>
               DOMAIN infos.value = {c \in DOMAIN commits : Reaches(new, c)}

RangeLookupCovers ==
    \A new \in DOMAIN commits : \A old \in {0} \cup DOMAIN commits :
        LookupCovers(old, new,
                     GetCommitInfoRange(commits, ledger, Hexsha(old), Hexsha(new)),
                     GetCommitOidsRange(commits, ledger, Hexsha(old), Hexsha(new)))

\* The refs a step moves.
MovedRefs == {r \in RemoteRefs : remoteRef'[r] # remoteRef[r]}

\* A push that goes through handed over the union, over its lines, of the
\* entries of the commits between the remote's commit and the local one.
PushStepUnions ==
    remoteRef' # remoteRef =>
        /\ hookLog'.hook = "pre-push"
        /\ hookLog'.ok
        /\ hookLog'.oids =
              UNION {UNION {ledger[Hexsha(c)] : c \in Covered(remoteRef[r], head)} :
                     r \in MovedRefs}

\* C8: the range lookup for (old, new) returns the union of the ledger oid
\* sets of exactly the commits reachable from new and not from old (old
\* exclusive, new inclusive): index(new) - index(old) entries over a linear
\* history, every commit reachable from new when old is the all-zero hash;
\* pre-push takes remote_sha1 as old and local_sha1 as new and unions the
\* result over its lines.
C8_RangeLookup == []RangeLookupCovers /\ [][PushStepUnions]_vars

\* A push to a remote that had an older commit handed over some oids but
\* fewer than the remote was handed in all, on a history of three commits
\* in a line.
C8_Witness ==
    /\ hookLog.hook = "pre-push"
    /\ hookLog.ok
    /\ hookLog.oids # {}
    /\ hookLog.oids # lfsPushed[hookLog.subject]
    /\ Len(commits) = 3
    /\ Depth(head) = 3

\* Two refs of one remote, at different commits, were moved by one push.
TwoLinesPushed ==
    /\ hookLog.hook = "pre-push"
    /\ hookLog.ok
    /\ remoteRef[<<"origin", "main">>] = head
    /\ remoteRef[<<"origin", "dev">>] = head
    /\ Cardinality(hookLog.oids) = 3

\* The regular expressions of the two kinds of names.
MatchesCommitHash(h) == h.len = 40 /\ h.hex

MatchesOid(o) == o.len = 64 /\ o.hex

\* What a write of oids under the hash h gives, against what it is to give.
WriteValidated(h, oids, info, result) ==
    /\ info.ok = (\A o \in oids : MatchesOid(o))
    /\ result.ok = (MatchesCommitHash(h) /\ h \notin DOMAIN ledger /\ info.ok)
    /\ result.ok =>
         /\ DOMAIN result.value = DOMAIN ledger \cup {h}
         /\ result.value[h] = oids
         /\ \A g \in DOMAIN ledger : result.value[g] = ledger[g]

WritesValidated ==
    \A h \in WriteHashes \cup {Hexsha(c) : c \in DOMAIN commits} :
        \A oids \in WriteOidSets \cup {{}} :
            WriteValidated(h, oids, CommitInfo(oids),
                           BuildAndWrite(ledger, h, CommitInfo(oids)))

\* The step keeps every entry, and a step that ran a write either made one
\* valid entry or left the ledger as it was.
LedgerStep ==
    /\ \A h \in DOMAIN ledger : h \in DOMAIN ledger' /\ ledger'[h] = ledger[h]
    /\ \A h \in DOMAIN ledger' : MatchesCommitHash(h) /\ \A o \in ledger'[h] : MatchesOid(o)
    /\ ledger' # ledger =>
         /\ hookLog'.hook \in {"write", "post-commit"}
         /\ hookLog'.ok
         /\ Cardinality(DOMAIN ledger' \ DOMAIN ledger) = 1
    /\ (hookLog' # hookLog /\ hookLog'.hook \in {"write", "post-commit"} /\ ~hookLog'.ok) =>
         ledger' = ledger

\* C9: a ledger write either creates a new entry or fails and leaves the
\* ledger unchanged: write_commit_info raises when the commit id does not
\* match ^[0-9a-f]{40}$ or the commit has an entry, no CommitInfo is built
\* from an oid that does not match ^[0-9a-f]{64}$, and no operation modifies
\* or removes an entry once written.
C9_LedgerAppendOnly == []WritesValidated /\ [][LedgerStep]_vars

\* post-commit was refused a second entry for HEAD, in a ledger that also
\* holds an entry written directly.
C9_Witness ==
    /\ hookLog.hook = "post-commit"
    /\ ~hookLog.ok
    /\ head # 0
    /\ Hexsha(head) \in DOMAIN ledger
    /\ ForeignHash \in DOMAIN ledger

\* A direct write was refused in a ledger that holds entries.
WriteRefused ==
    /\ hookLog.hook = "write"
    /\ ~hookLog.ok
    /\ ledger # << >>

\* The commit deletes a tracked path its parent had.
DeletesTracked(c) ==
    \E p \in Paths :
        /\ IsThetaTracked(p)
        /\ p \in DOMAIN FilesAt(commits, commits[c].parent)
        /\ p \notin DOMAIN FilesAt(commits, c)

\* C29: every commit post-commit ran on has its entry in the ledger - the
\* ledger maps a commit hash to one oid set - an empty one when the commit
\* changes no tracked path, and a commit that deletes a tracked path has
\* one too.
C29_OneEntryPerCommit ==
    \A c \in DOMAIN commits :
        /\ Hexsha(c) \in DOMAIN ledger
        /\ TrackedChangedPaths(c) = {} => ledger[Hexsha(c)] = {}

\* Every commit that deletes no tracked path has its entry, an empty one
\* when it changes no tracked path.
EntryUnlessDeletion ==
    \A c \in DOMAIN commits :
        ~DeletesTracked(c) =>
            /\ Hexsha(c) \in DOMAIN ledger
            /\ TrackedChangedPaths(c) = {} => ledger[Hexsha(c)] = {}

\* HEAD changes an untracked path only and has an empty entry.
EmptyEntryForUntrackedChange ==
    /\ head # 0
    /\ commits[head].parent # 0
    /\ TrackedChangedPaths(head) = {}
    /\ Hexsha(head) \in DOMAIN ledger
    /\ ledger[Hexsha(head)] = {}

\* post-commit died on HEAD, which deletes the tracked model file, and left
\* no entry for it.
NoEntryAfterDeletion ==
    /\ head # 0
    /\ DeletesTracked(head)
    /\ hookLog.hook = "post-commit"
    /\ ~hookLog.ok
    /\ Hexsha(head) \notin DOMAIN ledger

\* The sets of refs of one remote that a push may name.
PushRequests ==
    {refs \in SUBSET RemoteRefs :
        refs # {} /\ \E remote \in Remotes : \A r \in refs : r[1] = remote}

\* Every commit of every range of a push of HEAD to refs has an entry.
AllRecorded(refs) ==
    \A r \in refs : \A c \in Covered(remoteRef[r], head) : Hexsha(c) \in DOMAIN ledger

\* Whatever refs a push of HEAD names, the lookup of pre-push raises
\* ValueError when a commit of one of the ranges has no entry, and returns
\* the union over all the ranges otherwise.
RangesRaiseOnMissing ==
    head # 0 =>
        \A refs \in PushRequests :
            LET result == PrePush(commits, ledger, PushLines(refs))
            IN  IF AllRecorded(refs)
                THEN /\ result.ok
                     /\ result.value =
                           UNION {UNION {ledger[Hexsha(c)] : c \in Covered(remoteRef[r], head)} :
                                  r \in refs}
                ELSE result = Raise("ValueError")

\* The ranges (old, new) git may name in a line of the hook's input, and
\* the inputs of one or two lines, one of them for HEAD.
LineRanges == ({0} \cup DOMAIN commits) \X DOMAIN commits

TwoLineInputs == {{a, b} : a \in {r \in LineRanges : r[2] = head}, b \in LineRanges}

RangeRecorded(range) ==
    \A c \in Covered(range[1], range[2]) : Hexsha(c) \in DOMAIN ledger

\* In the repository pre-push has died in: for any one or two ranges the
\* lookup of pre-push raises ValueError when a commit of one of them has no
\* entry, whatever the other range holds.
AnyRangesRaiseOnMissing ==
    (hookLog.hook = "pre-push" /\ ~hookLog.ok) =>
    \A ranges \in TwoLineInputs :
        LET result == GetCommitOidsRanges(commits, ledger,
                          {<<Hexsha(r[1]), Hexsha(r[2])>> : r \in ranges})
        IN  IF \A r \in ranges : RangeRecorded(r)
            THEN /\ result.ok
                 /\ result.value =
                       UNION {UNION {ledger[Hexsha(c)] : c \in Covered(r[1], r[2])} :
                              r \in ranges}
            ELSE result = Raise("ValueError")

\* A step of the pre-push hook hands the object-store push either the oids
\* of all its ranges, every commit of them having an entry, or nothing: a
\* hook that died handed over no oid and no ref moved.
PushAllOrNothing ==
    /\ (hookLog' # hookLog /\ hookLog'.hook = "pre-push" /\ ~hookLog'.ok) =>
          /\ lfsPushed' = lfsPushed
          /\ remoteRef' = remoteRef
          /\ hookLog'.oids = {}
    /\ lfsPushed' # lfsPushed =>
          /\ hookLog'.hook = "pre-push"
          /\ hookLog'.ok
          /\ AllRecorded(MovedRefs)
          /\ \A remote \in Remotes :
               lfsPushed'[remote] =
                   IF remote = hookLog'.subject
                   THEN lfsPushed[remote] \cup
                        UNION {UNION {ledger[Hexsha(c)] : c \in Covered(remoteRef[r], head)} :
                               r \in MovedRefs}
                   ELSE lfsPushed[remote]

\* C30: when a commit of one of the ranges pre-push is given has no ledger
\* entry the lookup raises ValueError and no oid is handed to the
\* object-store push: all the oids of all the ranges, or none.
C30_AllOrNothing ==
    /\ []RangesRaiseOnMissing
    /\ []AnyRangesRaiseOnMissing
    /\ [][PushAllOrNothing]_vars

\* pre-push died on a push of HEAD to a remote without commits: a commit of
\* the range has an entry with oids, another has no entry, and the remote
\* was handed nothing.
C30_Witness ==
    /\ hookLog.hook = "pre-push"
    /\ ~hookLog.ok
    /\ head # 0
    /\ \E c \in DOMAIN commits :
         Reaches(head, c) /\ Hexsha(c) \in DOMAIN ledger /\ ledger[Hexsha(c)] # {}
    /\ \E c \in DOMAIN commits : Reaches(head, c) /\ Hexsha(c) \notin DOMAIN ledger
    /\ lfsPushed[hookLog.subject] = {}
    /\ \A r \in RemoteRefs : r[1] = hookLog.subject => remoteRef[r] = 0

\* Of two ranges one resolves to oids and the other holds a commit without
\* entry: the lookup of both raises.
OneRangeOfTwoResolves ==
    /\ hookLog.hook = "pre-push"
    /\ ~hookLog.ok
    /\ \E a \in LineRanges, b \in LineRanges :
        /\ a[2] = head
        /\ RangeRecorded(a)
        /\ UNION {ledger[Hexsha(c)] : c \in Covered(a[1], a[2])} # {}
        /\ ~RangeRecorded(b)
        /\ ~GetCommitOidsRanges(commits, ledger,
                {<<Hexsha(a[1]), Hexsha(a[2])>>, <<Hexsha(b[1]), Hexsha(b[2])>>}).ok

----------------------------------------------------------------------------
(* Metadata documents as Python values: dicts keep insertion order          *)
(* (metadata.Metadata is an OrderedDict), utils.flatten / utils.unflatten   *)

\* A dict: its items in insertion order.
Dict(items) == [tag |-> "dict", items |-> items]

Item(k, v) == [k |-> k, v |-> v]

\* A str, a numpy array and a list of numbers.
Str(s) == [tag |-> "str", s |-> s]

NdArray(a) == [tag |-> "ndarray", a |-> a]

List(a) == [tag |-> "list", a |-> a]

DictKeys(items) == {items[i].k : i \in 1 .. Len(items)}

\* d[k]
DictGet(items, k) == items[CHOOSE i \in 1 .. Len(items) : items[i].k = k].v

\* d[k] = v: a key the dict holds keeps its position, a new key goes last.
SetItem(items, k, v) ==
    IF k \in DictKeys(items)
    THEN [i \in 1 .. Len(items) |-> IF items[i].k = k THEN Item(k, v) ELSE items[i]]
    ELSE Append(items, Item(k, v))

\* d.update(other)
RECURSIVE DictUpdate(_, _)
DictUpdate(items, other) ==
    IF other = << >> THEN items
    ELSE DictUpdate(SetItem(items, Head(other).k, Head(other).v), Tail(other))

\* The is_leaf argument of utils.flatten: the default (not a dict),
\* Metadata.flatten's (a ParamMetadata object), and
\* Metadata.from_metadata_dict's ("lfs_metadata" in v).
IsLeaf(is_leaf, v) ==
    CASE is_leaf = "not_dict" -> v.tag # "dict"
      [] is_leaf = "param" -> v.tag = "param"
      [] is_leaf = "lfs_name" -> v.tag = "dict" /\ "lfs_metadata" \in DictKeys(v.items)

\* utils.flatten._flatten
RECURSIVE FlattenItems(_, _, _, _)
FlattenItems(is_leaf, items, prefix, flat) ==
    IF items = << >> THEN flat
    ELSE LET k == Head(items).k
             v == Head(items).v
         IN  FlattenItems(is_leaf, Tail(items), prefix,
                 IF ~IsLeaf(is_leaf, v)
                 THEN DictUpdate(flat, FlattenItems(is_leaf, v.items, Append(prefix, k), << >>))
                 ELSE SetItem(flat, Append(prefix, k), v))

\* utils.flatten
Flatten(d, is_leaf) == Dict(FlattenItems(is_leaf, d.items, << >>, << >>))

\* The body of utils.unflatten's loop: setdefault along ks[:-1], then
\* curr[ks[-1]] = v.
RECURSIVE SetPath(_, _, _)
SetPath(items, ks, v) ==
    IF Len(ks) = 1 THEN SetItem(items, ks[1], v)
    ELSE LET curr == IF ks[1] \in DictKeys(items) THEN DictGet(items, ks[1]) ELSE Dict(<< >>)
         IN  SetItem(items, ks[1], Dict(SetPath(curr.items, Tail(ks), v)))

RECURSIVE UnflattenItems(_, _)
UnflattenItems(flat, nested) ==
    IF flat = << >> THEN nested
    ELSE UnflattenItems(Tail(flat), SetPath(nested, Head(flat).k, Head(flat).v))

\* utils.unflatten
Unflatten(d) == Dict(UnflattenItems(d.items, << >>))

----------------------------------------------------------------------------
(* metadata.py: ParamMetadata and its fields, Metadata.serialize / write /  *)
(* from_metadata_dict / from_file, MetadataEncoder                          *)

\* The dataclass fields in declaration order.
TensorFields == <<"shape", "dtype", "hash">>

LfsFields == <<"version", "oid", "size">>

ThetaFields == <<"update_type", "last_commit">>

ParamFields == <<"tensor_metadata", "lfs_metadata", "theta_metadata">>

SeqRange(q) == {q[i] : i \in 1 .. Len(q)}

\* np.array(hash) in TensorMetadata.__post_init__
NpArray(v) == NdArray(v.a)

\* TensorMetadata(shape, dtype, hash)
TensorMetadata(shape, dtype, hash) ==
    [shape |-> shape, dtype |-> dtype, hash |-> NpArray(hash)]

\* ParamMetadata(tensor_metadata, lfs_metadata, theta_metadata)
ParamMetadata(tensor_metadata, lfs_metadata, theta_metadata) ==
    [tag |-> "param", tensor_metadata |-> tensor_metadata,
     lfs_metadata |-> lfs_metadata, theta_metadata |-> theta_metadata]

\* dataclasses.asdict(obj, dict_factory=OrderedDict) of a field object: the
\* fields in declaration order.
AsDict(obj, fields) ==
    Dict([i \in 1 .. Len(fields) |-> Item(fields[i], obj[fields[i]])])

\* MetadataField.serialize of a ParamMetadata (asdict recurses into the
\* three field objects, arrays stay arrays).
ParamSerialize(p) ==
    Dict(<<Item("tensor_metadata", AsDict(p.tensor_metadata, TensorFields)),
           Item("lfs_metadata", AsDict(p.lfs_metadata, LfsFields)),
           Item("theta_metadata", AsDict(p.theta_metadata, ThetaFields))>>)

\* Metadata.serialize: flatten, replace each record by its dict, unflatten.
MetadataSerialize(m) ==
    LET flattened == Flatten(m, "param").items
    IN  Unflatten(Dict([i \in 1 .. Len(flattened) |->
            Item(flattened[i].k, ParamSerialize(flattened[i].v))]))

\* A token of JSON text.
Tok(t, s, a) == [t |-> t, s |-> s, a |-> a]

\* json.dump(value, cls=MetadataEncoder): the text as tokens, the members
\* of an object in the dict's order; MetadataEncoder.default turns an
\* array into a list.
RECURSIVE JsonDump(_)
RECURSIVE JsonDumpMembers(_)
JsonDump(v) ==
    CASE v.tag = "dict" -> <<Tok("{", "", << >>)>> \o JsonDumpMembers(v.items) \o <<Tok("}", "", << >>)>>
      [] v.tag = "str" -> <<Tok("str", v.s, << >>)>>
      [] v.tag = "list" -> <<Tok("list", "", v.a)>>
      [] v.tag = "ndarray" -> <<Tok("list", "", v.a)>>

JsonDumpMembers(items) ==
    IF items = << >> THEN << >>
    ELSE <<Tok("key", Head(items).k, << >>)>> \o JsonDump(Head(items).v)
            \o JsonDumpMembers(Tail(items))

\* json.load: the value that starts at token i, and the index after it.
RECURSIVE ParseValue(_, _)
RECURSIVE ParseMembers(_, _, _)
ParseValue(toks, i) ==
    CASE toks[i].t = "{" -> ParseMembers(toks, i + 1, << >>)
      [] toks[i].t = "str" -> [v |-> Str(toks[i].s), i |-> i + 1]
      [] toks[i].t = "list" -> [v |-> List(toks[i].a), i |-> i + 1]

ParseMembers(toks, i, items) ==
    IF toks[i].t = "}" THEN [v |-> Dict(items), i |-> i + 1]
    ELSE LET member == ParseValue(toks, i + 1)
         IN  ParseMembers(toks, member.i, SetItem(items, toks[i].s, member.v))

JsonLoad(toks) == ParseValue(toks, 1).v

\* cls(**d): TypeError unless the keys of d are the fields of the class.
KeywordsAre(d, fields) == d.tag = "dict" /\ DictKeys(d.items) = SeqRange(fields)

FieldObject(d, fields) == [f \in SeqRange(fields) |-> DictGet(d.items, f)]

\* ParamMetadata.from_metadata_dict: d["tensor_metadata"], d["lfs_metadata"]
\* and d["theta_metadata"] in turn, each a KeyError when missing.
ParamFromMetadataDict(d) ==
    IF "tensor_metadata" \notin DictKeys(d.items) THEN Raise("KeyError")
    ELSE IF ~KeywordsAre(DictGet(d.items, "tensor_metadata"), TensorFields) THEN Raise("TypeError")
    ELSE IF "lfs_metadata" \notin DictKeys(d.items) THEN Raise("KeyError")
    ELSE IF ~KeywordsAre(DictGet(d.items, "lfs_metadata"), LfsFields) THEN Raise("TypeError")
    ELSE IF "theta_metadata" \notin DictKeys(d.items) THEN Raise("KeyError")
    ELSE IF ~KeywordsAre(DictGet(d.items, "theta_metadata"), ThetaFields) THEN Raise("TypeError")
    ELSE LET t == FieldObject(DictGet(d.items, "tensor_metadata"), TensorFields)
         IN  Ok(ParamMetadata(TensorMetadata(t.shape, t.dtype, t.hash),
                              FieldObject(DictGet(d.items, "lfs_metadata"), LfsFields),
                              FieldObject(DictGet(d.items, "theta_metadata"), ThetaFields)))

\* Metadata.from_metadata_dict: the dicts that have a key "lfs_metadata"
\* are taken for the records.
MetadataFromMetadataDict(d) ==
    LET flattened == Flatten(d, "lfs_name").items
        params == [i \in 1 .. Len(flattened) |-> ParamFromMetadataDict(flattened[i].v)]
    IN  IF \E i \in 1 .. Len(flattened) : ~params[i].ok
        THEN Raise(params[CHOOSE i \in 1 .. Len(flattened) :
                       ~params[i].ok /\ \A j \in 1 .. i - 1 : params[j].ok].err)
        ELSE Ok(Unflatten(Dict([i \in 1 .. Len(flattened) |->
                     Item(flattened[i].k, params[i].value)])))

\* Metadata.write: the text json.dump writes for the serialized document.
MetadataWrite(m) == JsonDump(MetadataSerialize(m))

\* Metadata.from_file
MetadataFromFile(text) == MetadataFromMetadataDict(JsonLoad(text))

----------------------------------------------------------------------------
(* .gitattributes: config.GitAttributesFile, which the commands use, and    *)
(* git_utils.parse_gitattributes / add_theta_to_gitattributes /             *)
(* is_theta_tracked                                                         *)

\* An attribute of a line, "key=value" or "key" (value ""), and a line: a
\* pattern and its attributes in the order of the text.
Attr(key, value) == [key |-> key, value |-> value]

AttrLine(pattern, attributes) == [pattern |-> pattern, attributes |-> attributes]

\* git_utils.THETA_ATTRIBUTES
THETA_ATTRIBUTES == <<"filter", "merge", "diff">>

ThetaAttrs == <<Attr("filter", "theta"), Attr("merge", "theta"), Attr("diff", "theta")>>

\* fnmatch.fnmatchcase(path, pattern) for the patterns of the model: a
\* pattern without special characters matches its own text, "*" matches
\* any run of characters, and "[0]" is a character class that matches the
\* character 0, not the text "[0]".
Fnmatch(path, pattern) ==
    \/ pattern = path /\ path # "w[0].pt"
    \/ pattern = "*.pt" /\ path \in {"model.pt", "head.pt", "w[0].pt", "w0.pt"}
    \/ pattern = "w[0].pt" /\ path = "w0.pt"

\* git_utils.parse_gitattributes: the attributes as a dict, a repeated key
\* keeping its last value.
ParseGitattributes(line) ==
    [pattern |-> line.pattern,
     attributes |->
        [k \in {line.attributes[i].key : i \in 1 .. Len(line.attributes)} |->
            line.attributes[CHOOSE i \in 1 .. Len(line.attributes) :
                /\ line.attributes[i].key = k
                /\ \A j \in i + 1 .. Len(line.attributes) : line.attributes[j].key # k].value]]

\* The last entry whose pattern matches the path (0 when none does).
LastMatch(gitattributes, path) ==
    IF \E i \in 1 .. Len(gitattributes) : Fnmatch(path, gitattributes[i].pattern)
    THEN CHOOSE i \in 1 .. Len(gitattributes) :
             /\ Fnmatch(path, gitattributes[i].pattern)
             /\ \A j \in i + 1 .. Len(gitattributes) : ~Fnmatch(path, gitattributes[j].pattern)
    ELSE 0

\* attributes.get(attr) == "theta" for every theta attribute
AllTheta(attributes) ==
    \A i \in 1 .. Len(THETA_ATTRIBUTES) :
        THETA_ATTRIBUTES[i] \in DOMAIN attributes /\ attributes[THETA_ATTRIBUTES[i]] = "theta"

\* attr in attributes and attributes[attr] != "theta" for some theta attribute
AnyNotTheta(attributes) ==
    \E i \in 1 .. Len(THETA_ATTRIBUTES) :
        THETA_ATTRIBUTES[i] \in DOMAIN attributes /\ attributes[THETA_ATTRIBUTES[i]] # "theta"

\* git_utils.is_theta_tracked
GitUtilsIsThetaTracked(path, gitattributes) ==
    /\ LastMatch(gitattributes, path) # 0
    /\ AllTheta(gitattributes[LastMatch(gitattributes, path)].attributes)

\* An add that puts the new entry in front of the others.
AddThetaInFront(gitattributes, path) ==
    LET previous == LastMatch(gitattributes, path)
        kept == IF previous = 0 THEN << >> ELSE gitattributes[previous].attributes
    IN  IF previous # 0 /\ AllTheta(kept) THEN Ok(gitattributes)
        ELSE IF previous # 0 /\ AnyNotTheta(kept) THEN Raise("ValueError")
        ELSE Ok(<<[pattern |-> path,
                   attributes |-> [k \in DOMAIN kept \cup {"filter", "merge", "diff"} |->
                                      IF k \in {"filter", "merge", "diff"} THEN "theta" ELSE kept[k]]]>>
                \o gitattributes)

\* git_utils.add_theta_to_gitattributes
AddThetaToGitattributes(gitattributes, path) ==
    LET previous == LastMatch(gitattributes, path)
        kept == IF previous = 0 THEN << >> ELSE gitattributes[previous].attributes
    IN  IF previous # 0 /\ AllTheta(kept) THEN Ok(gitattributes)
        ELSE IF previous # 0 /\ AnyNotTheta(kept) THEN Raise("ValueError")
        ELSE Ok(Append(gitattributes,
                 [pattern |-> path,
                  attributes |-> [k \in DOMAIN kept \cup {"filter", "merge", "diff"} |->
                                     IF k \in {"filter", "merge", "diff"} THEN "theta" ELSE kept[k]]]))

\* "filter=theta" in pattern_attr.attributes: the attributes are kept as the
\* text of the line, and the test is one of substrings, so that
\* filter=theta2 passes it as filter=theta does.
HoldsFilterTheta(attributes) ==
    \E i \in 1 .. Len(attributes) :
        attributes[i].key = "filter" /\ attributes[i].value \in {"theta", "theta2"}

\* config.GitAttributesFile.is_theta_tracked on the lines of the file.
ConfigIsThetaTracked(data, path) ==
    \E i \in 1 .. Len(data) :
        Fnmatch(path, data[i].pattern) /\ HoldsFilterTheta(data[i].attributes)

\* config.GitAttributesFile.add_theta: a line with the very pattern makes
\* it call pattern_attrs.add, which PatternAttributes does not have;
\* without one a line "pattern filter=theta merge=theta diff=theta" is
\* appended.
ConfigAddTheta(data, pattern) ==
    IF \E i \in 1 .. Len(data) : data[i].pattern = pattern
    THEN Raise("AttributeError")
    ELSE Ok(Append(data, AttrLine(pattern, ThetaAttrs)))

----------------------------------------------------------------------------
(* Specification of the file formats: a Metadata document is written with   *)
(* Metadata.write, read back with Metadata.from_file and written again      *)

\* The key components of parameter names.
Components == {"lfs_metadata", "w"}

\* The most keys a dict of a document has, and the deepest nesting of a
\* parameter name.
MaxKeys == 2

MaxNesting == 2

\* The record of a parameter stored as the object numbered n, as clean
\* builds it (TensorMetadata.from_tensor hands an array to the constructor).
DocRecord(n, last_commit) ==
    ParamMetadata(
        TensorMetadata(Str("(2,)"), Str("float32"), NdArray(<<n, 0>>)),
        [version |-> Str("https://git-lfs.github.com/spec/v1"),
         oid |-> Str(IF n = 1 THEN "0a" ELSE "0b"), size |-> Str("8")],
        [update_type |-> Str("dense"), last_commit |-> Str(last_commit)])

DocRecords == {DocRecord(1, "c0"), DocRecord(2, "c0")}

\* The orders in which a dict can hold at most MaxKeys distinct components.
KeyOrders ==
    {ks \in UNION {[1 .. n -> Components] : n \in 0 .. MaxKeys} :
        \A i, j \in 1 .. Len(ks) : i # j => ks[i] # ks[j]}

\* The dicts of at least min keys whose values are drawn from vals.
DictsOver(vals, min) ==
    UNION {{Dict([i \in 1 .. Len(ks) |-> Item(ks[i], vs[i])]) : vs \in [1 .. Len(ks) -> vals]} :
              ks \in {q \in KeyOrders : Len(q) >= min}}

\* What a document can hold under a key with depth levels to go: a record,
\* or a group of parameters (a group holds at least one).
RECURSIVE DocValues(_)
DocValues(depth) ==
    IF depth <= 1 THEN DocRecords
    ELSE DocRecords \cup DictsOver(DocValues(depth - 1), 1)

\* The Metadata documents: any nesting of key components over records.
Documents == DictsOver(DocValues(MaxNesting), 0)

InMemory(m) == [phase |-> "memory", doc |-> m]

\* The documents a document is compared with: the empty one, and documents
\* that share keys with it, with the same record, with a record of another
\* object, and with a record of the same object written at another commit.
DiffOthers ==
    {Dict(<< >>),
     Dict(<<Item("w", DocRecord(1, "c1"))>>),
     Dict(<<Item("w", Dict(<<Item("w", DocRecord(2, "c0"))>>)),
            Item("lfs_metadata", DocRecord(2, "c0"))>>),
     Dict(<<Item("lfs_metadata", DocRecord(1, "c1")),
            Item("w", Dict(<<Item("lfs_metadata", DocRecord(1, "c1")),
                             Item("w", DocRecord(2, "c1"))>>))>>)}

\* Metadata.flatten() as a map from parameter name to record.
FlatMap(m) ==
    LET flattened == Flatten(m, "param").items
    IN  [k \in DictKeys(flattened) |-> DictGet(flattened, k)]

\* The orders in which a set of keys can be iterated.
Orders(keys) ==
    {q \in [1 .. Cardinality(keys) -> keys] : \A i, j \in DOMAIN q : i # j => q[i] # q[j]}

\* Metadata({k: flat[k] for k in keys}).unflatten(), the keys taken in the
\* given order.
UnflattenInOrder(flat, order) ==
    Unflatten(Dict([i \in 1 .. Len(order) |-> Item(order[i], flat[order[i]])]))

\* The most lines a .gitattributes file starts with.
MaxLines == 2

AttrPatterns == {"model.pt", "*.pt"}

\* The attributes of a line: all three theta attributes; another filter;
\* an attribute that is none of the three, without a value; the filter
\* alone; a filter set twice in the line; a filter whose name begins with
\* theta.
AttrLists ==
    {ThetaAttrs,
     <<Attr("filter", "lfs")>>,
     <<Attr("text", "")>>,
     <<Attr("filter", "theta")>>,
     <<Attr("filter", "theta"), Attr("filter", "lfs"), Attr("merge", "theta"), Attr("diff", "theta")>>,
     <<Attr("filter", "theta2"), Attr("merge", "theta"), Attr("diff", "theta")>>}

AttrFiles ==
    UNION {[1 .. n -> {AttrLine(p, a) : p \in AttrPatterns, a \in AttrLists}] : n \in 0 .. MaxLines}

AttributesFile(data) == [data |-> data, last |-> [op |-> "none"]]

\* read_gitattributes: every line parsed.
ReadGitattributes(data) == [i \in 1 .. Len(data) |-> ParseGitattributes(data[i])]

InitFiles ==
    /\ commits = << >>
    /\ head = 0
    /\ lfsObjects = << >>
    /\ loaded = NoLoad
    /\ ledger = << >>
    /\ remoteRef = << >>
    /\ lfsPushed = << >>
    /\ hookLog = IdleHook
    /\ mapState = IdleMap
    /\ filterOut = IdleFilter
    /\ \/ metaFile \in {InMemory(m) : m \in Documents} /\ attrFile = NoAttributes
       \/ metaFile = NoDocument /\ attrFile \in {AttributesFile(data) : data \in AttrFiles}
    /\ updateRun = NoUpdate
    /\ storeRun = NoStoreRun

\* Metadata.write(file)
WriteFile ==
    /\ metaFile.phase = "memory"
    /\ metaFile' = [phase |-> "written", doc |-> metaFile.doc,
                    text |-> MetadataWrite(metaFile.doc)]
    /\ UNCHANGED <<repoVars, ledgerVars, mapVars, attrFile, updateRun, storeRun>>

\* Metadata.from_file(file)
ReadFile ==
    /\ metaFile.phase = "written"
    /\ metaFile' = [phase |-> "read", doc |-> metaFile.doc, text |-> metaFile.text,
                    parsed |-> MetadataFromFile(metaFile.text)]
    /\ UNCHANGED <<repoVars, ledgerVars, mapVars, attrFile, updateRun, storeRun>>

\* Metadata.write(file) of the document that was read.
WriteBack ==
    /\ metaFile.phase = "read"
    /\ metaFile.parsed.ok
    /\ metaFile' = [phase |-> "rewritten", doc |-> metaFile.doc, text |-> metaFile.text,
                    parsed |-> metaFile.parsed,
                    text_again |-> MetadataWrite(metaFile.parsed.value)]
    /\ UNCHANGED <<repoVars, ledgerVars, mapVars, attrFile, updateRun, storeRun>>

\* Metadata.diff(other): each of the three documents is built from a set
\* of keys, in the order the set is iterated.
Diff(other) ==
    /\ metaFile.phase = "memory"
    /\ LET self_flattened == FlatMap(metaFile.doc)
           other_flattened == FlatMap(other)
       IN  \E a \in Orders(DiffAdded(self_flattened, other_flattened)),
              r \in Orders(DiffRemoved(self_flattened, other_flattened)),
              m \in Orders(DiffModified(self_flattened, other_flattened)) :
               metaFile' = [phase |-> "diffed", doc |-> metaFile.doc, other |-> other,
                            added |-> UnflattenInOrder(self_flattened, a),
                            removed |-> UnflattenInOrder(other_flattened, r),
                            modified |-> UnflattenInOrder(self_flattened, m)]
    /\ UNCHANGED <<repoVars, ledgerVars, mapVars, attrFile, updateRun, storeRun>>

\* git theta track <pattern>: GitAttributesFile(repo), add_theta(pattern)
\* and write(); an exception of add_theta ends the command before write().
Track(pattern) ==
    /\ "data" \in DOMAIN attrFile
    /\ Len(attrFile.data) <= MaxLines
    /\ LET result == ConfigAddTheta(attrFile.data, pattern)
       IN  attrFile' = [data |-> IF result.ok THEN result.value ELSE attrFile.data,
                        last |-> [op |-> "track", path |-> pattern,
                                  before |-> attrFile.data, ok |-> result.ok]]
    /\ UNCHANGED <<repoVars, ledgerVars, mapVars, metaFile, updateRun, storeRun>>

\* The model files add_theta_to_gitattributes is called for.
AddedPaths == {"model.pt", "head.pt", "w[0].pt"}

\* add_theta_to_gitattributes(read_gitattributes(file), path)
AddThetaStep(path) ==
    /\ "data" \in DOMAIN attrFile
    /\ attrFile' = [data |-> attrFile.data,
                    last |-> [op |-> "add_theta_to_gitattributes", path |-> path,
                              result |-> AddThetaToGitattributes(ReadGitattributes(attrFile.data), path)]]
    /\ UNCHANGED <<repoVars, ledgerVars, mapVars, metaFile, updateRun, storeRun>>

\* post_commit: the paths of the commit that pass
\* gitattributes.is_theta_tracked(path).
PostCommitSelect(changed) ==
    /\ "data" \in DOMAIN attrFile
    /\ attrFile' = [data |-> attrFile.data,
                    last |-> [op |-> "post_commit", changed |-> changed,
                              selected |-> {path \in changed : ConfigIsThetaTracked(attrFile.data, path)}]]
    /\ UNCHANGED <<repoVars, ledgerVars, mapVars, metaFile, updateRun, storeRun>>

NextFiles ==
    \/ \E other \in DiffOthers : Diff(other)
    \/ WriteFile
    \/ ReadFile
    \/ WriteBack
    \/ \E pattern \in {"model.pt", "head.pt"} : Track(pattern)
    \/ \E path \in AddedPaths : AddThetaStep(path)
    \/ \E changed \in SUBSET Paths : PostCommitSelect(changed)

SpecFiles == InitFiles /\ [][NextFiles]_vars

----------------------------------------------------------------------------
(* Properties of the file formats                                           *)

\* The groups of a document: the dicts under its keys that are not records.
RECURSIVE Groups(_)
Groups(d) ==
    UNION {IF d.items[i].v.tag = "dict"
           THEN {d.items[i].v} \cup Groups(d.items[i].v)
           ELSE {} : i \in 1 .. Len(d.items)}

\* A group of the document has a key component "lfs_metadata".
HasLfsNamedGroup(d) == \E g \in Groups(d) : "lfs_metadata" \in DictKeys(g.items)

\* C14: for every Metadata document M, parsing the serialization of M
\* yields a document equal to M record for record, and serializing the
\* parsed document again yields the same serialization.
C14_SerializeParseRoundTrip ==
    /\ metaFile.phase \in {"read", "rewritten"} =>
         /\ metaFile.parsed.ok
         /\ metaFile.parsed.value = metaFile.doc
    /\ metaFile.phase = "rewritten" => metaFile.text_again = metaFile.text

\* The round trip of C14 for the documents none of whose groups has a key
\* component "lfs_metadata".
RoundTripWithoutLfsNamedGroup ==
    (metaFile.phase # "none" /\ ~HasLfsNamedGroup(metaFile.doc)) => C14_SerializeParseRoundTrip

\* A document with a group that has a key component "lfs_metadata" is
\* written, and reading it back raises KeyError.
LfsNamedGroupRaises ==
    (metaFile.phase = "read" /\ HasLfsNamedGroup(metaFile.doc)) =>
        (~metaFile.parsed.ok /\ metaFile.parsed.err = "KeyError")

\* The parameter names of a document, and the object id a document holds
\* for a name.
NamesOf(m) == DOMAIN FlatMap(m)

OidAt(m, k) == FlatMap(m)[k].lfs_metadata.oid

KeysInOrder ==
    <<"dtype", "hash", "last_commit", "lfs_metadata", "oid", "shape", "size",
      "tensor_metadata", "theta_metadata", "update_type", "version", "w">>

StrLess(a, b) ==
    \E i, j \in 1 .. Len(KeysInOrder) : KeysInOrder[i] = a /\ KeysInOrder[j] = b /\ i < j

\* Python's comparison of tuples of str.
RECURSIVE TupleLess(_, _)
TupleLess(a, b) ==
    IF a = << >> THEN b # << >>
    ELSE IF b = << >> THEN FALSE
    ELSE IF Head(a) = Head(b) THEN TupleLess(Tail(a), Tail(b))
    ELSE StrLess(Head(a), Head(b))

\* sorted(...) of a set of parameter names.
RECURSIVE SortedNames(_)
SortedNames(names) ==
    IF names = {} THEN << >>
    ELSE LET least == CHOOSE k \in names : \A j \in names \ {k} : TupleLess(k, j)
         IN  <<least>> \o SortedNames(names \ {least})

\* The keys of a dict come in increasing order.
KeysSorted(items) == \A i \in 1 .. Len(items) - 1 : StrLess(items[i].k, items[i + 1].k)

\* The keys of a JSON value come in increasing order in every object of it.
RECURSIVE SortedAtEveryLevel(_)
SortedAtEveryLevel(v) ==
    IF v.tag # "dict" THEN TRUE
    ELSE /\ KeysSorted(v.items)
         /\ \A i \in 1 .. Len(v.items) : SortedAtEveryLevel(v.items[i].v)

\* The keys of a Metadata document come in increasing order at every level
\* of the parameter names (the records are not looked into).
RECURSIVE ParamLevelsSorted(_)
ParamLevelsSorted(m) ==
    IF m.tag # "dict" THEN TRUE
    ELSE /\ KeysSorted(m.items)
         /\ \A i \in 1 .. Len(m.items) : ParamLevelsSorted(m.items[i].v)

\* The document clean returns for the records of m: the flattened keys are
\* sorted and the records unflattened in that order.
CleanOrdered(m) == UnflattenInOrder(FlatMap(m), SortedNames(NamesOf(m)))

\* C16: the serialized Metadata document has its keys in lexicographic
\* order at every nesting level, the parameter-name levels and the field
\* names of each record alike, whatever the key order of the document.
C16_SerializedKeysSorted ==
    metaFile.phase = "written" => SortedAtEveryLevel(JsonLoad(metaFile.text))

\* The record of every parameter is written with its fields in the order
\* the dataclass declares them, which is not the sorted one (looked up in
\* the documents that can be told apart from their records).
WrittenInDeclarationOrder ==
    (metaFile.phase = "written" /\ ~HasLfsNamedGroup(metaFile.doc)) =>
        \A k \in NamesOf(metaFile.doc) :
            LET written == DictGet(Flatten(JsonLoad(metaFile.text), "lfs_name").items, k)
            IN  /\ [i \in 1 .. Len(written.items) |-> written.items[i].k] = ParamFields
                /\ ~KeysSorted(written.items)

\* The parameter-name levels are sorted in what is written for a document
\* that clean returned, and for no document whose own levels are not.
ParamLevelsFollowDocument ==
    metaFile.phase = "written" =>
        /\ ParamLevelsSorted(CleanOrdered(metaFile.doc))
        /\ (metaFile.doc = CleanOrdered(metaFile.doc)) = ParamLevelsSorted(metaFile.doc)

\* A document that was read from a file whose keys are not sorted is
\* written with its keys in the file's order.
UnsortedFileKeepsOrder ==
    /\ metaFile.phase = "rewritten"
    /\ ~ParamLevelsSorted(metaFile.parsed.value)
    /\ metaFile.text_again = metaFile.text

----------------------------------------------------------------------------
(* Properties of .gitattributes (SpecFiles)                                 *)

\* The value a line of text gives an attribute: that of its last
\* occurrence in the line.
SetsTo(line, key, value) ==
    \E i \in 1 .. Len(line.attributes) :
        /\ line.attributes[i] = Attr(key, value)
        /\ \A j \in i + 1 .. Len(line.attributes) : line.attributes[j].key # key

KeysOf(line) == {line.attributes[i].key : i \in 1 .. Len(line.attributes)}

\* The last line of the file whose pattern matches the path (0: none).
LastLine(data, path) ==
    IF \E i \in 1 .. Len(data) : Fnmatch(path, data[i].pattern)
    THEN CHOOSE i \in 1 .. Len(data) :
             /\ Fnmatch(path, data[i].pattern)
             /\ \A j \in 1 .. Len(data) : Fnmatch(path, data[j].pattern) => j <= i
    ELSE 0

\* The outcome of tracking a path: with L the last line that matches it, an
\* error and nothing added when L sets one of the three attributes to
\* another value than theta; nothing added when L sets all three to theta;
\* otherwise one entry more, of the path, with the attributes of L and the
\* three set to theta.
TrackedByLastEntry(data, path, ok, after) ==
    LET L == LastLine(data, path)
        three == {"filter", "merge", "diff"}
        keys == IF L = 0 THEN {} ELSE KeysOf(data[L])
        conflict == L # 0 /\ \E a \in three : a \in keys /\ ~SetsTo(data[L], a, "theta")
        already == L # 0 /\ \A a \in three : SetsTo(data[L], a, "theta")
        before == ReadGitattributes(data)
    IN  IF conflict THEN ~ok /\ after = before
        ELSE IF already THEN ok => after = before
        ELSE /\ ok
             /\ Len(after) = Len(before) + 1
             /\ \A i \in 1 .. Len(before) : after[i] = before[i]
             /\ after[Len(after)].pattern = path
             /\ DOMAIN after[Len(after)].attributes = keys \cup three
             /\ \A k \in keys \cup three :
                    IF k \in three THEN after[Len(after)].attributes[k] = "theta"
                    ELSE SetsTo(data[L], k, after[Len(after)].attributes[k])

\* C18: tracking a path, with L the last attributes entry whose pattern
\* matches it, raises an error and adds nothing if L sets filter, merge or
\* diff to another value than theta; otherwise, unless L sets all three to
\* theta, it appends exactly one entry, of the path, with all of L's
\* attributes plus filter=theta, merge=theta and diff=theta.
C18_TrackFollowsLastEntry ==
    ("data" \in DOMAIN attrFile /\ attrFile.last.op = "track") =>
        TrackedByLastEntry(attrFile.last.before, attrFile.last.path, attrFile.last.ok,
                           ReadGitattributes(attrFile.data))

\* add_theta_to_gitattributes, which the track command does not call, has
\* the outcome of C18.
AddThetaFollowsLastEntry ==
    ("data" \in DOMAIN attrFile /\ attrFile.last.op = "add_theta_to_gitattributes") =>
        TrackedByLastEntry(attrFile.data, attrFile.last.path, attrFile.last.result.ok,
                           IF attrFile.last.result.ok THEN attrFile.last.result.value
                           ELSE ReadGitattributes(attrFile.data))

\* The track command, for its part: an AttributeError when a line has the
\* very pattern, and otherwise the line "pattern filter=theta merge=theta
\* diff=theta" appended, whatever the lines that match say.
TrackAppendsOrRaises ==
    ("data" \in DOMAIN attrFile /\ attrFile.last.op = "track") =>
        IF \E i \in 1 .. Len(attrFile.last.before) :
               attrFile.last.before[i].pattern = attrFile.last.path
        THEN ~attrFile.last.ok /\ attrFile.data = attrFile.last.before
        ELSE /\ attrFile.last.ok
             /\ attrFile.data = Append(attrFile.last.before, AttrLine(attrFile.last.path, ThetaAttrs))

\* Reachable: track adds a line for a path whose last matching line sets
\* another filter.
TrackOverOtherFilter ==
    /\ "data" \in DOMAIN attrFile
    /\ attrFile.last.op = "track"
    /\ attrFile.last.ok
    /\ LastLine(attrFile.last.before, attrFile.last.path) # 0
    /\ SetsTo(attrFile.last.before[LastLine(attrFile.last.before, attrFile.last.path)], "filter", "lfs")

\* Reachable: track raises on a pattern that is listed already.
TrackRaisesOnListedPattern ==
    /\ "data" \in DOMAIN attrFile
    /\ attrFile.last.op = "track"
    /\ ~attrFile.last.ok

\* A path is theta-tracked by the last line that matches it.
ThetaTrackedByLastEntry(data, path) ==
    /\ LastLine(data, path) # 0
    /\ \A a \in {"filter", "merge", "diff"} : SetsTo(data[LastLine(data, path)], a, "theta")

\* C19: a path is theta-tracked iff the last .gitattributes entry whose
\* pattern matches it sets filter, merge and diff all to theta, the last
\* value of a repeated attribute counting; the post-commit hook selects the
\* changed paths it records by this rule.
C19_PostCommitSelectsByLastEntry ==
    ("data" \in DOMAIN attrFile /\ attrFile.last.op = "post_commit") =>
        attrFile.last.selected =
            {path \in attrFile.last.changed : ThetaTrackedByLastEntry(attrFile.data, path)}

\* git_utils.is_theta_tracked, which the hook does not call, follows the
\* rule of C19.
GitUtilsTrackedByLastEntry ==
    "data" \in DOMAIN attrFile =>
        \A path \in Paths :
            GitUtilsIsThetaTracked(path, ReadGitattributes(attrFile.data))
                <=> ThetaTrackedByLastEntry(attrFile.data, path)

\* The hook, for its part, selects the paths that some line matches whose
\* text holds filter=theta.
PostCommitSelectsByAnyLine ==
    ("data" \in DOMAIN attrFile /\ attrFile.last.op = "post_commit") =>
        attrFile.last.selected =
            {path \in attrFile.last.changed :
                \E i \in 1 .. Len(attrFile.data) :
                    /\ Fnmatch(path, attrFile.data[i].pattern)
                    /\ \E j \in 1 .. Len(attrFile.data[i].attributes) :
                           /\ attrFile.data[i].attributes[j].key = "filter"
                           /\ attrFile.data[i].attributes[j].value \in {"theta", "theta2"}}

\* Reachable: the hook selects a path whose last matching line sets
\* another filter.
SelectedAgainstLastEntry ==
    /\ "data" \in DOMAIN attrFile
    /\ attrFile.last.op = "post_commit"
    /\ \E path \in attrFile.last.selected :
           /\ LastLine(attrFile.data, path) # 0
           /\ SetsTo(attrFile.data[LastLine(attrFile.data, path)], "filter", "lfs")

\* add_theta_to_gitattributes was applied: the path, the entries it was
\* given and what it returned.
AddThetaApplied == "data" \in DOMAIN attrFile /\ attrFile.last.op = "add_theta_to_gitattributes"

AddThetaInput == ReadGitattributes(attrFile.data)

\* The entries given are a prefix of the entries returned, and when the last
\* matching entry sets all three attributes to theta the entries returned
\* are the entries given.
InputIsPrefix ==
    (AddThetaApplied /\ attrFile.last.result.ok) =>
        LET given == AddThetaInput
            result == attrFile.last.result.value
            previous == LastMatch(given, attrFile.last.path)
        IN  /\ Len(given) <= Len(result)
            /\ Len(result) <= Len(given) + 1
            /\ \A i \in 1 .. Len(given) : result[i] = given[i]
            /\ (previous # 0 /\ AllTheta(given[previous].attributes)) => result = given

\* Applied again to what it returned, for the same path, it returns the
\* same entries.
TwiceIsOnce ==
    (AddThetaApplied /\ attrFile.last.result.ok) =>
        AddThetaToGitattributes(attrFile.last.result.value, attrFile.last.path)
            = attrFile.last.result

\* C27: add_theta_to_gitattributes never changes, removes or reorders an
\* entry (the entries given are a prefix of the result), returns the entries
\* given when the last matching entry sets filter, merge and diff to theta,
\* and so applied twice for a path gives what applying it once gives.
C27_AddThetaAppendOnly == InputIsPrefix /\ TwiceIsOnce

\* For a path that its own text matches as a pattern, twice is once.
TwiceIsOnceForLiteralPaths ==
    (AddThetaApplied /\ attrFile.last.path # "w[0].pt") => TwiceIsOnce

\* An entry was appended after two entries, the last of them matching the
\* path and setting none of the three attributes.
AppendedAfterMatch ==
    /\ AddThetaApplied
    /\ attrFile.last.result.ok
    /\ Len(AddThetaInput) = 2
    /\ LastMatch(AddThetaInput, attrFile.last.path) = 2
    /\ Len(attrFile.last.result.value) = 3

\* The entry appended for w[0].pt does not match w[0].pt: a second
\* application appends it again.
AppendedTwice ==
    /\ AddThetaApplied
    /\ attrFile.last.path = "w[0].pt"
    /\ attrFile.last.result.ok
    /\ LET again == AddThetaToGitattributes(attrFile.last.result.value, "w[0].pt")
       IN  again.ok /\ Len(again.value) = Len(attrFile.last.result.value) + 1

----------------------------------------------------------------------------
(* Arithmetic of the update plug-ins: numbers are exact fractions, in       *)
(* units of 1e-12, and arrays map positions to numbers                      *)

RECURSIVE Gcd(_, _)
Gcd(x, y) == IF y = 0 THEN x ELSE Gcd(y, x % y)

\* The fraction n / d (d # 0) in lowest terms with a positive denominator.
Q(n, d) ==
    LET g == Gcd(Abs(n), Abs(d))
        sign == IF d < 0 THEN -1 ELSE 1
    IN  [n |-> (sign * n) \div g, d |-> (sign * d) \div g]

QInt(n) == [n |-> n, d |-> 1]

QZero == QInt(0)

QAdd(x, y) == Q(x.n * y.d + y.n * x.d, x.d * y.d)

QSub(x, y) == Q(x.n * y.d - y.n * x.d, x.d * y.d)

QMul(x, y) == Q(x.n * y.n, x.d * y.d)

QDiv(x, y) == Q(x.n * y.d, x.d * y.n)

QAbs(x) == [n |-> Abs(x.n), d |-> x.d]

QLess(x, y) == x.n * y.d < y.n * x.d

RECURSIVE QSum(_, _)
QSum(f, ps) ==
    IF ps = {} THEN QZero
    ELSE LET p == CHOOSE q \in ps : TRUE
         IN  QAdd(f[p], QSum(f, ps \ {p}))

\* The positions of an array of the given shape (one or two axes).
Positions(shape) ==
    IF Len(shape) = 1 THEN {<<i>> : i \in 1 .. shape[1]}
    ELSE {<<i, j>> : i \in 1 .. shape[1], j \in 1 .. shape[2]}

Array(shape, at) == [shape |-> shape, at |-> at]

\* a - b, a + b and a * b of numpy for arrays of one shape.
ArraySub(a, b) == Array(a.shape, [p \in Positions(a.shape) |-> QSub(a.at[p], b.at[p])])

ArrayAdd(a, b) == Array(a.shape, [p \in Positions(a.shape) |-> QAdd(a.at[p], b.at[p])])

ArrayMul(a, b) == Array(a.shape, [p \in Positions(a.shape) |-> QMul(a.at[p], b.at[p])])

\* a @ b for matrices.
MatMul(a, b) ==
    Array(<<a.shape[1], b.shape[2]>>,
          [p \in Positions(<<a.shape[1], b.shape[2]>>) |->
              QSum([k \in 1 .. a.shape[2] |-> QMul(a.at[<<p[1], k>>], b.at[<<k, p[2]>>])],
                   1 .. a.shape[2])])

\* numpy.testing.assert_allclose(actual, desired, rtol = 1 / rtol_den) with
\* its default atol = 0: |actual - desired| <= rtol * |desired| everywhere.
AssertAllClose(actual, desired, rtol_den) ==
    \A p \in Positions(desired.shape) :
        LET diff == QAbs(QSub(actual.at[p], desired.at[p]))
            want == QAbs(desired.at[p])
        IN  diff.n = 0 \/ (want.n * diff.d) \div (diff.n * want.d) >= rtol_den

----------------------------------------------------------------------------
(* The update plug-ins on arrays: updates/ia3.py, updates/low_rank.py,      *)
(* updates/sparse.py, updates/dense.py                                      *)

\* LowRankUpdate.threshold, 1e-11, in units of 1e-12.
LOW_RANK_THRESHOLD == 10

\* The rtol of the round-trip tests, 1e-6, as its inverse.
ROUND_TRIP_RTOL_DEN == 1000000

\* The positions that share with p every axis that is not summed over
\* (axes are counted from 0, as numpy does).
Along(shape, p, axes) ==
    {q \in Positions(shape) : \A ax \in 1 .. Len(shape) : (ax - 1) \notin axes => q[ax] = p[ax]}

\* An average over the broadcast dims that counts the positions where the
\* previous value is zero.
IA3PlainMean(parameter, previous_parameter, broadcast_dims) ==
    LET shape == parameter.shape
        multiplier == [p \in Positions(shape) |->
                          IF previous_parameter.at[p] # QZero
                          THEN QDiv(parameter.at[p], previous_parameter.at[p])
                          ELSE QZero]
    IN  [ia3 |-> Array(shape, [p \in Positions(shape) |->
                    QDiv(QSum(multiplier, Along(shape, p, broadcast_dims)),
                         QInt(Cardinality(Along(shape, p, broadcast_dims))))])]

\* IA3Update.calculate_update
IA3CalculateUpdate(parameter, previous_parameter, broadcast_dims) ==
    LET shape == parameter.shape
        mask1 == [p \in Positions(shape) |-> previous_parameter.at[p] # QZero]
        multiplier == [p \in Positions(shape) |->
                          IF mask1[p] THEN QDiv(parameter.at[p], previous_parameter.at[p])
                          ELSE QZero]
        denominator == [p \in Positions(shape) |->
                           Cardinality({q \in Along(shape, p, broadcast_dims) : mask1[q]})]
    IN  [ia3 |-> Array(shape, [p \in Positions(shape) |->
                    IF denominator[p] # 0
                    THEN QDiv(QSum(multiplier, Along(shape, p, broadcast_dims)),
                              QInt(denominator[p]))
                    ELSE QZero])]

\* IA3Update.apply_update
IA3ApplyUpdate(update, previous) == ArrayMul(previous, update.ia3)

IsDiagonal(m) ==
    /\ Len(m.shape) = 2
    /\ m.shape[1] = m.shape[2]
    /\ \A p \in Positions(m.shape) : p[1] # p[2] => m.at[p] = QZero

\* The rows of a diagonal matrix by decreasing absolute value of their
\* diagonal element.
ByMagnitude(m) ==
    CHOOSE order \in [1 .. m.shape[1] -> 1 .. m.shape[1]] :
        \A i, j \in 1 .. m.shape[1] :
            i < j =>
                /\ order[i] # order[j]
                /\ ~QLess(QAbs(m.at[<<order[i], order[i]>>]), QAbs(m.at[<<order[j], order[j]>>]))
                /\ (QAbs(m.at[<<order[i], order[i]>>]) = QAbs(m.at[<<order[j], order[j]>>])
                        => order[i] < order[j])

\* np.linalg.svd(m, full_matrices=False) of a diagonal matrix: the
\* singular values are the absolute values of the diagonal in decreasing
\* order, u holds the signed unit vectors and vh the unit vectors.
Svd(m) ==
    LET n == m.shape[1]
        order == ByMagnitude(m)
    IN  [u |-> Array(<<n, n>>, [p \in Positions(<<n, n>>) |->
                 IF p[1] # order[p[2]] THEN QZero
                 ELSE IF m.at[<<p[1], p[1]>>].n < 0 THEN QInt(-1) ELSE QInt(1)]),
         s |-> [i \in 1 .. n |-> QAbs(m.at[<<order[i], order[i]>>])],
         vh |-> Array(<<n, n>>, [p \in Positions(<<n, n>>) |->
                 IF p[2] = order[p[1]] THEN QInt(1) ELSE QZero])]

\* LowRankUpdate.calculate_update with K = None, as get_update_handler
\* constructs the plug-in.
LowRankCalculateUpdate(parameter, previous_parameter) ==
    LET update == ArraySub(parameter, previous_parameter)
        n == update.shape[1]
        svd == Svd(update)
        k == Cardinality({i \in 1 .. n : QLess(QInt(LOW_RANK_THRESHOLD), svd.s[i])})
    IN  IF Len(update.shape) < 2 THEN [dense |-> update]
        ELSE [R |-> Array(<<n, k>>, [p \in Positions(<<n, k>>) |-> svd.u.at[p]]),
              C |-> Array(<<k, n>>, [p \in Positions(<<k, n>>) |->
                        QMul(svd.s[p[1]], svd.vh.at[p])])]

\* LowRankUpdate.apply_update
LowRankApplyUpdate(update, previous) ==
    IF "R" \notin DOMAIN update THEN ArrayAdd(update.dense, previous)
    ELSE ArrayAdd(MatMul(update.R, update.C), previous)

\* SparseUpdate.calculate_sparse_update
CalculateSparseUpdate(new_value, previous_value) ==
    [difference |-> ArraySub(new_value, previous_value)]

\* SparseUpdate.apply: previous + difference
SparseApply(update, previous) == ArrayAdd(previous, update.difference)

\* DenseUpdate.write stores the parameter, DenseUpdate.apply reads it.
DenseStored(parameter) == [parameter |-> parameter]

DenseRead(update) == update.parameter

\* U.calculate_update(a, b) of the plug-in named U.
PluginCalculate(U, a, b, broadcast_dims) ==
    CASE U = "dense" -> DenseStored(a)
      [] U = "sparse" -> CalculateSparseUpdate(a, b)
      [] U = "low-rank" -> LowRankCalculateUpdate(a, b)
      [] U = "ia3" -> IA3CalculateUpdate(a, b, broadcast_dims)

\* U.apply_update(update, b) of the plug-in named U.
PluginApply(U, update, b) ==
    CASE U = "dense" -> DenseRead(update)
      [] U = "sparse" -> SparseApply(update, b)
      [] U = "low-rank" -> LowRankApplyUpdate(update, b)
      [] U = "ia3" -> IA3ApplyUpdate(update, b)

----------------------------------------------------------------------------
(* Specification of the update plug-ins: calculate_update of a parameter    *)
(* and its previous value, then apply_update of the result                  *)

\* The length of every axis of the arrays.
ArrayExtent == 2

\* The elements of the arrays, in units of 1e-12: zero, a number below
\* the low-rank threshold and a number above it.
ArrayValues == {0, 5, 20}

ArrayShapes == {<<ArrayExtent>>, <<ArrayExtent, ArrayExtent>>}

Arrays(shape) ==
    {Array(shape, [p \in Positions(shape) |-> QInt(f[p])]) :
        f \in [Positions(shape) -> ArrayValues]}

Plugins == {"dense", "sparse", "low-rank", "ia3"}

\* A plug-in, a parameter and its previous value of the same shape, and
\* for ia3 the axes to broadcast over; the matrices given to low-rank
\* differ on the diagonal only, where Svd is known.
Given(U, a, b, broadcast_dims) ==
    [phase |-> "given", plugin |-> U, parameter |-> a, previous |-> b,
     broadcast_dims |-> broadcast_dims]

InitUpdates ==
    /\ commits = << >>
    /\ head = 0
    /\ lfsObjects = << >>
    /\ loaded = NoLoad
    /\ ledger = << >>
    /\ remoteRef = << >>
    /\ lfsPushed = << >>
    /\ hookLog = IdleHook
    /\ mapState = IdleMap
    /\ filterOut = IdleFilter
    /\ metaFile = NoDocument
    /\ attrFile = NoAttributes
    /\ storeRun = NoStoreRun
    /\ \E shape \in ArrayShapes, U \in Plugins :
           \E a \in Arrays(shape), b \in Arrays(shape),
              broadcast_dims \in SUBSET (0 .. Len(shape) - 1) :
               /\ U # "ia3" => broadcast_dims = {}
               /\ (U = "low-rank" /\ Len(shape) = 2) => IsDiagonal(ArraySub(a, b))
               /\ updateRun = Given(U, a, b, broadcast_dims)

\* U.calculate_update(parameter, previous)
CalculateStep ==
    /\ updateRun.phase = "given"
    /\ updateRun' = [updateRun EXCEPT !.phase = "calculated"] @@
           [update |-> PluginCalculate(updateRun.plugin, updateRun.parameter,
                                       updateRun.previous, updateRun.broadcast_dims)]
    /\ UNCHANGED <<repoVars, ledgerVars, mapVars, metaFile, attrFile, storeRun>>

\* U.apply_update(update, previous)
ApplyStep ==
    /\ updateRun.phase = "calculated"
    /\ updateRun' = [updateRun EXCEPT !.phase = "applied"] @@
           [result |-> PluginApply(updateRun.plugin, updateRun.update, updateRun.previous)]
    /\ UNCHANGED <<repoVars, ledgerVars, mapVars, metaFile, attrFile, storeRun>>

NextUpdates ==
    \/ CalculateStep
    \/ ApplyStep

SpecUpdates == InitUpdates /\ [][NextUpdates]_vars

----------------------------------------------------------------------------
(* Properties of the update plug-ins                                        *)

\* The parameter is the previous value scaled by a vector that is constant
\* along the broadcast dims: it is zero where the previous value is, and
\* the ratios agree along the dims.
IsScaling(a, b, broadcast_dims) ==
    \A p \in Positions(a.shape) :
        /\ b.at[p] = QZero => a.at[p] = QZero
        /\ \A q \in Along(a.shape, p, broadcast_dims) :
               (b.at[p] # QZero /\ b.at[q] # QZero) =>
                   QDiv(a.at[p], b.at[p]) = QDiv(a.at[q], b.at[q])

\* The elements of parameter - previous that low-rank drops: those of a
\* matrix whose absolute value is above zero and not above the threshold.
Dropped(a, b) ==
    {p \in Positions(a.shape) :
        /\ Len(a.shape) = 2
        /\ a.at[p] # b.at[p]
        /\ ~QLess(QInt(LOW_RANK_THRESHOLD), QAbs(QSub(a.at[p], b.at[p])))}

\* The statement of C17 as it was made: for every plug-in and arrays a, b
\* of one shape, apply_update(calculate_update(a, b), b) is a, exactly for
\* dense and sparse and within rtol 1e-6 for low-rank and ia3.
C17_EveryPluginRoundTrips ==
    updateRun.phase = "applied" =>
        IF updateRun.plugin \in {"dense", "sparse"}
        THEN updateRun.result = updateRun.parameter
        ELSE AssertAllClose(updateRun.result, updateRun.parameter, ROUND_TRIP_RTOL_DEN)

\* C17: apply_update(calculate_update(a, b), b) is a for dense and sparse;
\* for low-rank it is a except in the elements of a - b that are not above
\* the threshold, where it is b; for ia3 it is a exactly when a is b scaled
\* by a vector that is constant along the broadcast dims.
C17_RoundTripWhereRepresentable ==
    updateRun.phase = "applied" =>
        LET a == updateRun.parameter
            b == updateRun.previous
        IN  /\ updateRun.plugin \in {"dense", "sparse"} => updateRun.result = a
            /\ updateRun.plugin = "low-rank" =>
                   updateRun.result =
                       Array(a.shape, [p \in Positions(a.shape) |->
                           IF p \in Dropped(a, b) THEN b.at[p] ELSE a.at[p]])
            /\ updateRun.plugin = "ia3" =>
                   ((updateRun.result = a) <=> IsScaling(a, b, updateRun.broadcast_dims))

\* ia3 gave back a matrix that is the previous one scaled along one axis,
\* by different factors in the two rows, with a zero in the previous value.
C17_Witness ==
    /\ updateRun.phase = "applied"
    /\ updateRun.plugin = "ia3"
    /\ updateRun.broadcast_dims = {1}
    /\ updateRun.result = updateRun.parameter
    /\ updateRun.parameter # updateRun.previous
    /\ \E p \in Positions(updateRun.previous.shape) :
           updateRun.previous.at[p] = QZero /\ updateRun.previous.at[<<p[1], 3 - p[2]>>] # QZero
    /\ updateRun.update.ia3.at[<<1, 1>>] # updateRun.update.ia3.at[<<2, 1>>]

\* low-rank dropped an element of the difference and kept another.
LowRankDropped ==
    /\ updateRun.phase = "applied"
    /\ updateRun.plugin = "low-rank"
    /\ Dropped(updateRun.parameter, updateRun.previous) # {}
    /\ "R" \in DOMAIN updateRun.update
    /\ updateRun.update.R.shape = <<2, 1>>
    /\ ~AssertAllClose(updateRun.result, updateRun.parameter, ROUND_TRIP_RTOL_DEN)

\* low-rank gave back a matrix whose difference has rank two and a
\* negative element.
LowRankFullRank ==
    /\ updateRun.phase = "applied"
    /\ updateRun.plugin = "low-rank"
    /\ "R" \in DOMAIN updateRun.update
    /\ updateRun.update.R.shape = <<2, 2>>
    /\ \E p \in Positions(<<2, 2>>) : QLess(updateRun.parameter.at[p], updateRun.previous.at[p])
    /\ updateRun.result = updateRun.parameter

----------------------------------------------------------------------------
(* The object-store subprocesses: async_utils.subprocess_run under          *)
(* git_lfs_push_oids, git_lfs_clean and git_lfs_smudge, and what pre_push,  *)
(* LfsMetadata.from_pointer and LazyParam.tensor make of the outcome        *)

\* The exit statuses of a subprocess.
ReturnCodes == {0, 1, 2}

StoreOids == {"0a", "0b", "0c", "0d"}

StoreRemotes == {"origin", "backup"}

\* What a subprocess wrote to its standard output: the text of a pointer,
\* the bytes of an object, or nothing.
PointerText(oid) == [kind |-> "pointer", oid |-> oid]

ObjectBytes(oid) == [kind |-> "bytes", oid |-> oid]

NoOutput == [kind |-> "empty"]

\* subprocess_run: the CompletedAsyncProcess of a process that ended with
\* returncode after writing stdout; the exit status is recorded and nothing
\* is raised for any value of it.
SubprocessRun(returncode, stdout, capture_output) ==
    [returncode |-> returncode,
     stdout |-> IF capture_output THEN stdout ELSE [kind |-> "None"]]

\* git_lfs_push_oids: the exit status of "git lfs push --object-id", which
\* is not run for no oids.
GitLfsPushOids(oids, returncode) ==
    IF oids # {} THEN SubprocessRun(returncode, NoOutput, FALSE).returncode ELSE 0

\* git_lfs_clean: the standard output of "git lfs clean".
GitLfsClean(returncode, stdout) == SubprocessRun(returncode, stdout, TRUE).stdout

\* git_lfs_smudge: the standard output of "git lfs smudge".
GitLfsSmudge(returncode, stdout) == SubprocessRun(returncode, stdout, TRUE).stdout

\* LfsMetadata.from_pointer
FromPointer(pointer_contents) ==
    IF pointer_contents.kind = "pointer"
    THEN Ok([version |-> "v1", oid |-> pointer_contents.oid])
    ELSE Raise("ValueError")

\* What a process that ended with returncode can have written: what was
\* asked of it when it ended with 0, and otherwise that, nothing at all, or
\* (git lfs smudge) the pointer it was given.
Outputs(returncode, asked, given) ==
    IF returncode = 0 THEN {asked} ELSE {asked, NoOutput, given}

InitStore ==
    /\ commits = << >>
    /\ head = 0
    /\ lfsObjects = << >>
    /\ loaded = NoLoad
    /\ ledger = << >>
    /\ remoteRef = << >>
    /\ lfsPushed = << >>
    /\ hookLog = IdleHook
    /\ mapState = IdleMap
    /\ filterOut = IdleFilter
    /\ metaFile = NoDocument
    /\ attrFile = NoAttributes
    /\ updateRun = NoUpdate
    /\ storeRun = NoStoreRun

\* pre_push from the oids of the pushed commits on: git_lfs_push_oids is
\* run once, its return value is dropped, and the hook returns.
PrePushStep(remote_name, oids, returncode) ==
    /\ oids = {} => returncode = 0
    /\ storeRun' = [op |-> "pre_push", remote_name |-> remote_name, oids |-> oids,
                    runs |-> IF oids # {} THEN 1 ELSE 0,
                    returncode |-> GitLfsPushOids(oids, returncode),
                    exit |-> 0]
    /\ UNCHANGED <<repoVars, ledgerVars, mapVars, metaFile, attrFile, updateRun>>

\* The object-store write of clean: LfsMetadata.from_pointer of the output
\* of git_lfs_clean, run once.
LfsCleanStep(oid, returncode, stdout) ==
    /\ stdout \in Outputs(returncode, PointerText(oid), NoOutput)
    /\ storeRun' = [op |-> "clean", oid |-> oid, runs |-> 1, returncode |-> returncode,
                    stdout |-> stdout,
                    result |-> FromPointer(GitLfsClean(returncode, stdout))]
    /\ UNCHANGED <<repoVars, ledgerVars, mapVars, metaFile, attrFile, updateRun>>

\* The object-store read: LazyParam.tensor is the output of git_lfs_smudge,
\* run once, whatever its exit status.
LfsSmudgeStep(oid, returncode, stdout) ==
    /\ stdout \in Outputs(returncode, ObjectBytes(oid), PointerText(oid))
    /\ storeRun' = [op |-> "smudge", oid |-> oid, runs |-> 1, returncode |-> returncode,
                    stdout |-> stdout,
                    result |-> Ok(GitLfsSmudge(returncode, stdout))]
    /\ UNCHANGED <<repoVars, ledgerVars, mapVars, metaFile, attrFile, updateRun>>

NextStore ==
    \/ \E remote_name \in StoreRemotes, oids \in SUBSET StoreOids, returncode \in ReturnCodes :
           PrePushStep(remote_name, oids, returncode)
    \/ \E oid \in StoreOids, returncode \in ReturnCodes :
           \E stdout \in {PointerText(oid), NoOutput} : LfsCleanStep(oid, returncode, stdout)
    \/ \E oid \in StoreOids, returncode \in ReturnCodes :
           \E stdout \in {ObjectBytes(oid), PointerText(oid), NoOutput} :
               LfsSmudgeStep(oid, returncode, stdout)

SpecStore == InitStore /\ [][NextStore]_vars

----------------------------------------------------------------------------
(* Properties of the object-store subprocesses (SpecStore)                  *)

\* C20: a non-zero exit of the object-store subprocess is fatal and never
\* retried: pre-push exits non-zero when the push subprocess fails and 0
\* otherwise, and a failed object-store write or read makes the enclosing
\* clean or smudge fail instead of yielding a record or a tensor.
C20_SubprocessFailureIsFatal ==
    /\ storeRun.op # "none" => storeRun.runs <= 1
    /\ storeRun.op = "pre_push" => ((storeRun.exit # 0) <=> (storeRun.returncode # 0))
    /\ (storeRun.op \in {"clean", "smudge"} /\ storeRun.returncode # 0) => ~storeRun.result.ok

\* No subprocess is run a second time.
NeverRetried == storeRun.op # "none" => storeRun.runs <= 1

\* pre_push ends with status 0 whatever the push subprocess returned.
PrePushExitsZero == storeRun.op = "pre_push" => storeRun.exit = 0

\* The write fails exactly when the output is not a pointer, and the read
\* yields the output, whatever the exit status of the subprocess.
OutcomeFollowsOutput ==
    /\ storeRun.op = "clean" => (storeRun.result.ok <=> storeRun.stdout.kind = "pointer")
    /\ storeRun.op = "smudge" => (storeRun.result.ok /\ storeRun.result.value = storeRun.stdout)

\* Reachable: the push subprocess failed and pre_push ended with 0.
FailedPushExitsZero ==
    /\ storeRun.op = "pre_push"
    /\ storeRun.returncode # 0
    /\ storeRun.exit = 0

\* Reachable: a failed read that wrote nothing yields a tensor.
FailedReadYields ==
    /\ storeRun.op = "smudge"
    /\ storeRun.returncode # 0
    /\ storeRun.stdout = NoOutput
    /\ storeRun.result.ok

====
